---- MODULE Spec2Model ----
(***************************************************************************)
(* Model of the SPORTON-AI tracking loop (VideoProcessor.process_video)    *)
(* and of the trajectory metrics engines built on its Frame Records.       *)
(*                                                                         *)
(* Numbers.  The Python code computes with floats; the model computes with *)
(* exact rationals [n, d] (d > 0, lowest terms), so a comparison against a *)
(* threshold is the comparison of the real values.  Pixel coordinates of   *)
(* detection boxes are integers.                                           *)
(*                                                                         *)
(* Collaborators.  The detector (YOLO), the tracker (DeepSort) and the     *)
(* feature extractor are outside the repository; they are the environment  *)
(* of process_video.  The tracker is modelled by the lifecycle that the    *)
(* constructor call in VideoProcessor.__init__ configures (n_init,         *)
(* max_age); the drawing calls and the pose estimator, which change no     *)
(* state that a Frame Record or player_stats reads, are left out.          *)
(***************************************************************************)
EXTENDS Integers, Sequences, FiniteSets, TLC

VARIABLES
    frame_count,        \* self.frame_count
    players,            \* self.players: track id -> Player
    track_history,      \* self.track_history: track id -> list of (center, conf)
    feature_history,    \* self.feature_history: track id -> feature
    occlusion_history,  \* self.occlusion_history: track id -> list of (other id, iou)
    frames_data,        \* the list process_video appends Frame Records to
    tracker,            \* the DeepSort tracker's tracks (environment)
    handled,            \* the locals of the track loop in the last sampled frame
    env,                \* the scene in front of the camera, and what raised
                        \* in the last sampled frame (environment)
    pc,                 \* "reading" while the capture loop runs, "done" after it
    result,             \* what process_video returned: <<>> or <<[...]>>
    metrics             \* what the metrics engines returned: engine -> <<>> or <<result>>

vars == <<frame_count, players, track_history, feature_history, occlusion_history,
          frames_data, tracker, handled, env, pc, result, metrics>>

-----------------------------------------------------------------------------
(* Exact rational arithmetic *)

Abs(x) == IF x < 0 THEN -x ELSE x

RECURSIVE GCD(_, _)
GCD(a, b) == IF b = 0 THEN a ELSE GCD(b, a % b)

R(n, d) ==
    LET s == IF d < 0 THEN -1 ELSE 1
        g == GCD(Abs(n), Abs(d))
    IN  [n |-> (s * n) \div g, d |-> (s * d) \div g]

Zero == R(0, 1)
One == R(1, 1)
RInt(i) == R(i, 1)
RAdd(a, b) == R(a.n * b.d + b.n * a.d, a.d * b.d)
RSub(a, b) == R(a.n * b.d - b.n * a.d, a.d * b.d)
RMul(a, b) == R(a.n * b.n, a.d * b.d)
RDiv(a, b) == R(a.n * b.d, a.d * b.n)
RLt(a, b) == a.n * b.d < b.n * a.d
RLe(a, b) == a.n * b.d <= b.n * a.d
RMax(a, b) == IF RLt(a, b) THEN b ELSE a
RMin(a, b) == IF RLt(b, a) THEN b ELSE a
RAbs(a) == R(Abs(a.n), a.d)
\* Python's int(): truncation toward zero
RTrunc(a) == IF a.n >= 0 THEN a.n \div a.d ELSE -((-a.n) \div a.d)

RECURSIVE RSum(_)
RSum(s) == IF Len(s) = 0 THEN Zero ELSE RAdd(Head(s), RSum(Tail(s)))

\* floor of the square root, by bisection
RECURSIVE ISqrtIn(_, _, _)
ISqrtIn(k, lo, hi) ==
    IF lo >= hi THEN lo
    ELSE LET mid == (lo + hi + 1) \div 2
         IN  IF mid * mid <= k THEN ISqrtIn(k, mid, hi) ELSE ISqrtIn(k, lo, mid - 1)

\* np.sqrt of a rational; exact on the squares of rationals, which is what the
\* inputs of this model produce (the steps are axis-aligned or Pythagorean)
RSqrt(a) == R(ISqrtIn(a.n, 0, a.n), ISqrtIn(a.d, 0, a.d))

\* sqrt(dx**2 + dy**2)
Hypot(dx, dy) ==
    IF dy.n = 0 THEN RAbs(dx)
    ELSE IF dx.n = 0 THEN RAbs(dy)
    ELSE RSqrt(RAdd(RMul(dx, dx), RMul(dy, dy)))

Last(s) == s[Len(s)]
LastN(s, k) == IF Len(s) <= k THEN s ELSE SubSeq(s, Len(s) - k + 1, Len(s))
SeqRange(s) == {s[i] : i \in 1..Len(s)}

-----------------------------------------------------------------------------
(* Program constants of the tracking loop *)

PositionsMaxLen == 30
MaxAge == 30
NInit == 3
SampleStride == 3
SpeedDivisor == 3
FrameWidth == 640
FrameHeight == 480
SmoothWindow == 5
PersonClass == 0
BallClass == 32
MatchThreshold == R(3, 10)
OcclusionThreshold == R(3, 10)
IouWeight == R(7, 10)
SimilarityWeight == R(3, 10)

-----------------------------------------------------------------------------
(* Helpers of VideoProcessor *)

Max2(a, b) == IF a < b THEN b ELSE a
Min2(a, b) == IF b < a THEN b ELSE a

SetKey(f, k, v) == [x \in (DOMAIN f) \cup {k} |-> IF x = k THEN v ELSE f[x]]
GetOr(f, k, dflt) == IF k \in DOMAIN f THEN f[k] ELSE dflt

\* a list in place of the deque: append without eviction
ListAppend(dq, x) == Append(dq, x)

\* collections.deque(maxlen=30).append
DequeAppend(dq, x) ==
    IF Len(dq) >= PositionsMaxLen THEN Append(Tail(dq), x) ELSE Append(dq, x)

\* Player.__init__
Player(id, initial_position) ==
    [id |-> id,
     positions |-> <<initial_position>>,
     last_seen |-> 0,
     total_distance |-> Zero,
     avg_speed |-> Zero,
     max_speed |-> Zero,
     possession_frames |-> 0]

_calculate_distance(pos1, pos2) ==
    Hypot(RSub(pos2[1], pos1[1]), RSub(pos2[2], pos1[2]))

_calculate_iou(box1, box2) ==
    LET x1 == Max2(box1[1], box2[1])
        y1 == Max2(box1[2], box2[2])
        x2 == Min2(box1[3], box2[3])
        y2 == Min2(box1[4], box2[4])
        intersection == (x2 - x1) * (y2 - y1)
        box1_area == (box1[3] - box1[1]) * (box1[4] - box1[2])
        box2_area == (box2[3] - box2[1]) * (box2[4] - box2[2])
    IN  IF x2 < x1 \/ y2 < y1 THEN Zero
        ELSE R(intersection, box1_area + box2_area - intersection)

\* total_distance holds the length of the last step only
UpdatePlayerStatsLastStep(player, new_position, fc) ==
    LET n == Len(player.positions)
        distance == _calculate_distance(Last(player.positions), new_position)
        speed == RDiv(distance, RInt(SpeedDivisor))
        stats == IF n > 0
                 THEN [player EXCEPT
                         !.total_distance = distance,
                         !.avg_speed = RDiv(RAdd(RMul(@, RInt(n)), speed), RInt(n + 1)),
                         !.max_speed = RMax(@, speed)]
                 ELSE player
    IN  [stats EXCEPT !.positions = DequeAppend(@, new_position), !.last_seen = fc]

_update_player_stats(player, new_position, fc) ==
    LET n == Len(player.positions)
        distance == _calculate_distance(Last(player.positions), new_position)
        speed == RDiv(distance, RInt(SpeedDivisor))
        stats == IF n > 0
                 THEN [player EXCEPT
                         !.total_distance = RAdd(@, distance),
                         !.avg_speed = RDiv(RAdd(RMul(@, RInt(n)), speed), RInt(n + 1)),
                         !.max_speed = RMax(@, speed)]
                 ELSE player
    IN  [stats EXCEPT !.positions = DequeAppend(@, new_position), !.last_seen = fc]

\* the (dx, dy) list built in _handle_occlusion
Velocities(positions) ==
    [i \in 1..(Len(positions) - 1) |->
        <<RSub(positions[i + 1][1], positions[i][1]),
          RSub(positions[i + 1][2], positions[i][2])>>]

\* the last velocity in place of the mean of the velocities
PredictFromLastVelocity(positions, velocities) ==
    IF Len(positions) < 2 \/ Len(velocities) < 1 THEN <<>>
    ELSE <<RAdd(Last(positions)[1], Last(velocities)[1]),
           RAdd(Last(positions)[2], Last(velocities)[2])>>

\* None is <<>>
_predict_next_position(positions, velocities) ==
    IF Len(positions) < 2 \/ Len(velocities) < 1 THEN <<>>
    ELSE LET last_pos == Last(positions)
             k == RInt(Len(velocities))
             avg_velocity ==
                 <<RDiv(RSum([i \in 1..Len(velocities) |-> velocities[i][1]]), k),
                   RDiv(RSum([i \in 1..Len(velocities) |-> velocities[i][2]]), k)>>
         IN  <<RAdd(last_pos[1], avg_velocity[1]), RAdd(last_pos[2], avg_velocity[2])>>

\* the (other_id, iou) pairs one call appends, in the order of other_boxes
RECURSIVE Overlaps(_, _, _)
Overlaps(current_box, other_boxes, i) ==
    IF i > Len(other_boxes) THEN <<>>
    ELSE LET iou == _calculate_iou(current_box, other_boxes[i][2])
             rest == Overlaps(current_box, other_boxes, i + 1)
         IN  IF RLt(OcclusionThreshold, iou)
             THEN <<<<other_boxes[i][1], iou>>>> \o rest
             ELSE rest

\* with an overlap and nothing to predict from, the origin is returned
HandleOcclusionUnguarded(occ, pl, track_id, current_box, other_boxes) ==
    LET mine == GetOr(occ, track_id, <<>>) \o Overlaps(current_box, other_boxes, 1)
        predicted ==
            IF Len(mine) = 0 THEN <<>>
            ELSE IF track_id \in DOMAIN pl /\ Len(pl[track_id].positions) > 1
            THEN _predict_next_position(pl[track_id].positions,
                                        Velocities(pl[track_id].positions))
            ELSE <<Zero, Zero>>
    IN  [occlusion_history |-> SetKey(occ, track_id, mine), predicted_pos |-> predicted]

\* returns the updated occlusion_history and the predicted position (or <<>>)
_handle_occlusion(occ, pl, track_id, current_box, other_boxes) ==
    LET mine == GetOr(occ, track_id, <<>>) \o Overlaps(current_box, other_boxes, 1)
        predicted ==
            IF Len(mine) > 0 /\ track_id \in DOMAIN pl /\ Len(pl[track_id].positions) > 1
            THEN _predict_next_position(pl[track_id].positions,
                                        Velocities(pl[track_id].positions))
            ELSE <<>>
    IN  [occlusion_history |-> SetKey(occ, track_id, mine), predicted_pos |-> predicted]

-----------------------------------------------------------------------------
(* The detector's output for one sampled frame (environment).  A detection  *)
(* is [box, conf, cls, feat, obj]: feat = 0 when                            *)
(* _extract_appearance_features returned None, obj is the physical object   *)
(* detected (known to the environment only).                                *)

\* 1 - distance.cosine(features, stored): the extractor's answer for two
\* feature vectors; 1 for the same appearance
Similarity(f, g) == IF f = g THEN One ELSE R(1, 2)

\* yolo_boxes_current: a dict keyed by the box coordinates, in insertion order;
\* a later detection with the same coordinates replaces the value in place
RECURSIVE YoloBoxes(_, _, _)
YoloBoxes(dets, i, acc) ==
    IF i > Len(dets) THEN acc
    ELSE LET d == dets[i]
             box_data == [box |-> d.box, conf |-> d.conf, cls |-> d.cls, feat |-> d.feat]
             at == {k \in 1..Len(acc) : acc[k].box = d.box}
         IN  IF d.cls \notin {PersonClass, BallClass} THEN YoloBoxes(dets, i + 1, acc)
             ELSE IF at = {} THEN YoloBoxes(dets, i + 1, Append(acc, box_data))
             ELSE YoloBoxes(dets, i + 1,
                     [k \in 1..Len(acc) |-> IF k \in at THEN box_data ELSE acc[k]])

\* the score of one YOLO box for one track (process_video, the inner loop)
Score(ltrb, track_id, box_data, fh) ==
    LET iou == _calculate_iou(ltrb, box_data.box)
    IN  IF box_data.feat # 0 /\ track_id \in DOMAIN fh
        THEN RAdd(RMul(IouWeight, iou),
                  RMul(SimilarityWeight, Similarity(box_data.feat, fh[track_id])))
        ELSE iou

\* the first box with a score above the threshold, not the best one
RECURSIVE FirstBoxFrom(_, _, _, _, _, _, _)
FirstBoxFrom(ltrb, track_id, yolo, fh, i, best_box, max_score) ==
    IF i > Len(yolo) THEN best_box
    ELSE IF RLt(max_score, Score(ltrb, track_id, yolo[i], fh)) THEN i
    ELSE FirstBoxFrom(ltrb, track_id, yolo, fh, i + 1, best_box, max_score)

\* best_box: the index in yolo_boxes_current of the selected box, 0 for None
RECURSIVE BestBoxFrom(_, _, _, _, _, _, _)
BestBoxFrom(ltrb, track_id, yolo, fh, i, best_box, max_score) ==
    IF i > Len(yolo) THEN best_box
    ELSE LET score == Score(ltrb, track_id, yolo[i], fh)
         IN  IF RLt(max_score, score)
             THEN BestBoxFrom(ltrb, track_id, yolo, fh, i + 1, i, score)
             ELSE BestBoxFrom(ltrb, track_id, yolo, fh, i + 1, best_box, max_score)

BestBox(ltrb, track_id, yolo, fh) ==
    BestBoxFrom(ltrb, track_id, yolo, fh, 1, 0, MatchThreshold)

\* the plain mean of the last five centers
SmoothUnweighted(recent) ==
    <<RInt(RTrunc(RDiv(RSum([i \in 1..Len(recent) |-> recent[i][1][1]]),
                       RInt(Len(recent))))),
      RInt(RTrunc(RDiv(RSum([i \in 1..Len(recent) |-> recent[i][1][2]]),
                       RInt(Len(recent)))))>>

\* the confidence-weighted mean of the last five (center, conf) pairs
Smooth(recent) ==
    LET total == RSum([i \in 1..Len(recent) |-> recent[i][2]])
        wx == RSum([i \in 1..Len(recent) |-> RMul(recent[i][1][1], recent[i][2])])
        wy == RSum([i \in 1..Len(recent) |-> RMul(recent[i][1][2], recent[i][2])])
    IN  <<RInt(RTrunc(RDiv(wx, total))), RInt(RTrunc(RDiv(wy, total)))>>

\* 'position': [center[0] / 640, center[1] / 480]
Normalized(center) ==
    <<RDiv(center[1], RInt(FrameWidth)), RDiv(center[2], RInt(FrameHeight))>>

\* The body of "for track in tracks" for one track, in the order of the code:
\* the track's position is recorded (Record) after its statistics were updated
\* (Update), after the center was smoothed (Smoothing), after the occlusion
\* check replaced it or not (Matched), after best_box was selected
\* (HandleTrack).  acc holds the state the loop threads through the tracks of
\* one frame; handled keeps, per confirmed track, the values of the locals.

\* the player's entry appended after the drawing calls: a track whose drawing
\* raised has its update stored and no entry in the frame's record
RecordAfterDrawing(acc, track, best, fc, occ, raw, th, center, player) ==
    LET track_id == track.track_id
        best_box == acc.yolo[best]
        before == IF track_id \in DOMAIN acc.players
                  THEN acc.players[track_id].positions ELSE <<>>
        player_data ==
            [id |-> track_id,
             bbox |-> best_box.box,
             position |-> Normalized(center),
             confidence |-> best_box.conf,
             stats |-> [total_distance |-> player.total_distance,
                        avg_speed |-> player.avg_speed,
                        max_speed |-> player.max_speed,
                        possession_time |-> player.possession_frames,
                        time_in_frame |-> Len(player.positions)]]
        ball_data == [bbox |-> best_box.box, position |-> Normalized(center),
                      confidence |-> best_box.conf]
        raised == (acc.fault = [kind |-> "draw", who |-> track_id])
        entry == [id |-> track_id, cls |-> track.cls, best |-> best,
                  box |-> best_box.box, raw |-> raw, predicted |-> occ.predicted_pos,
                  center |-> center, smoothed |-> (Len(th) > SmoothWindow),
                  before |-> before,
                  after |-> IF track.cls = PersonClass THEN player.positions ELSE before,
                  raised |-> raised]
        common == [acc EXCEPT
                     !.occlusion_history = occ.occlusion_history,
                     !.track_history = SetKey(@, track_id, th),
                     !.feature_history = IF best_box.feat # 0
                                         THEN SetKey(@, track_id, best_box.feat) ELSE @,
                     !.handled = Append(@, entry)]
    IN  IF track.cls = PersonClass
        THEN [common EXCEPT
                !.players = SetKey(@, track_id, player),
                !.frame_players_data = IF raised THEN @ ELSE Append(@, player_data),
                !.other_boxes = IF raised THEN @ ELSE Append(@, <<track_id, best_box.box>>)]
        ELSE IF track.cls = BallClass
        THEN [common EXCEPT !.ball_data = <<ball_data>>]
        ELSE common

\* lines 346-363 (a person) and 389-395 (the ball)
Record(acc, track, best, fc, occ, raw, th, center, player) ==
    LET track_id == track.track_id
        best_box == acc.yolo[best]
        before == IF track_id \in DOMAIN acc.players
                  THEN acc.players[track_id].positions ELSE <<>>
        player_data ==
            [id |-> track_id,
             bbox |-> best_box.box,
             position |-> Normalized(center),
             confidence |-> best_box.conf,
             stats |-> [total_distance |-> player.total_distance,
                        avg_speed |-> player.avg_speed,
                        max_speed |-> player.max_speed,
                        possession_time |-> player.possession_frames,
                        time_in_frame |-> Len(player.positions)]]
        ball_data == [bbox |-> best_box.box, position |-> Normalized(center),
                      confidence |-> best_box.conf]
        entry == [id |-> track_id, cls |-> track.cls, best |-> best,
                  box |-> best_box.box, raw |-> raw, predicted |-> occ.predicted_pos,
                  center |-> center, smoothed |-> (Len(th) > SmoothWindow),
                  before |-> before,
                  after |-> IF track.cls = PersonClass THEN player.positions ELSE before,
                  raised |-> (acc.fault = [kind |-> "draw", who |-> track_id])]
        common == [acc EXCEPT
                     !.occlusion_history = occ.occlusion_history,
                     !.track_history = SetKey(@, track_id, th),
                     !.feature_history = IF best_box.feat # 0
                                         THEN SetKey(@, track_id, best_box.feat) ELSE @,
                     !.handled = Append(@, entry)]
    IN  IF track.cls = PersonClass
        THEN [common EXCEPT
                !.players = SetKey(@, track_id, player),
                !.frame_players_data = Append(@, player_data),
                !.other_boxes = Append(@, <<track_id, best_box.box>>)]
        ELSE IF track.cls = BallClass
        THEN [common EXCEPT !.ball_data = <<ball_data>>]
        ELSE common

\* lines 332-338: create the Player on first sight, then _update_player_stats
Update(acc, track, best, fc, occ, raw, th, center) ==
    Record(acc, track, best, fc, occ, raw, th, center,
           _update_player_stats(
               IF track.track_id \in DOMAIN acc.players
               THEN acc.players[track.track_id]
               ELSE Player(track.track_id, center),
               center, fc))

\* lines 321-330: th is track_history[track_id] after the append of line 316
Smoothing(acc, track, best, fc, occ, raw, th) ==
    Update(acc, track, best, fc, occ, raw, th,
           IF Len(th) > SmoothWindow
           THEN Smooth(LastN(th, SmoothWindow))
           ELSE Last(th)[1])

\* lines 303-316: the box center, replaced by the prediction if there is one
Matched(acc, track, best, fc, occ, raw) ==
    Smoothing(acc, track, best, fc, occ, raw,
              Append(GetOr(acc.track_history, track.track_id, <<>>),
                     <<IF occ.predicted_pos # <<>> THEN occ.predicted_pos ELSE raw,
                       acc.yolo[best].conf>>))

BoxCenter(box) ==
    <<RInt((box[1] + box[3]) \div 2), RInt((box[2] + box[4]) \div 2)>>

\* lines 303-311
Associate(acc, track, best, fc) ==
    IF best = 0
    THEN LET before == IF track.track_id \in DOMAIN acc.players
                       THEN acc.players[track.track_id].positions ELSE <<>>
         IN  [acc EXCEPT !.handled = Append(@,
                 [id |-> track.track_id, cls |-> track.cls, best |-> 0, box |-> <<>>,
                  raw |-> <<>>, predicted |-> <<>>, center |-> <<>>,
                  smoothed |-> FALSE, before |-> before, after |-> before,
                  raised |-> FALSE])]
    ELSE Matched(acc, track, best, fc,
                 _handle_occlusion(acc.occlusion_history, acc.players, track.track_id,
                                   acc.yolo[best].box, acc.other_boxes),
                 BoxCenter(acc.yolo[best].box))

\* the track's try block raised before anything was stored of the track
\* (lines 274-277, 419-421): the loop goes on with the next track
TrackRaised(acc, track) ==
    LET before == IF track.track_id \in DOMAIN acc.players
                  THEN acc.players[track.track_id].positions ELSE <<>>
    IN  [acc EXCEPT !.handled = Append(@,
            [id |-> track.track_id, cls |-> track.cls, best |-> 0, box |-> <<>>,
             raw |-> <<>>, predicted |-> <<>>, center |-> <<>>,
             smoothed |-> FALSE, before |-> before, after |-> before,
             raised |-> TRUE])]

\* lines 270-302
HandleTrack(acc, track, fc) ==
    IF ~track.confirmed THEN acc
    ELSE IF acc.fault = [kind |-> "track", who |-> track.track_id]
    THEN TrackRaised(acc, track)
    ELSE Associate(acc, track,
                   BestBox(track.ltrb, track.track_id, acc.yolo, acc.feature_history),
                   fc)

\* the loop left at the first track whose try block raised
RECURSIVE HandleTracksUntilRaise(_, _, _, _)
HandleTracksUntilRaise(acc, tracks, i, fc) ==
    IF i > Len(tracks) THEN acc
    ELSE IF tracks[i].confirmed /\ acc.fault.kind \in {"track", "draw"}
            /\ acc.fault.who = tracks[i].track_id
    THEN HandleTrack(acc, tracks[i], fc)
    ELSE HandleTracksUntilRaise(HandleTrack(acc, tracks[i], fc), tracks, i + 1, fc)

RECURSIVE HandleTracks(_, _, _, _)
HandleTracks(acc, tracks, i, fc) ==
    IF i > Len(tracks) THEN acc
    ELSE HandleTracks(HandleTrack(acc, tracks[i], fc), tracks, i + 1, fc)

-----------------------------------------------------------------------------
(* The DeepSort tracker as configured in VideoProcessor.__init__: a track   *)
(* is tentative until it has n_init hits, a tentative track that misses a   *)
(* frame is deleted, a confirmed track is deleted once it has gone more     *)
(* than max_age frames without an update, and an id is never given twice.   *)
(* The association itself is the tracker's: here it follows the object.     *)

NewTrack(id, d) ==
    [track_id |-> id, state |-> "tentative", hits |-> 1, time_since_update |-> 0,
     ltrb |-> d.box, cls |-> d.cls, obj |-> d.obj]

\* a confirmed track is kept one missed frame longer than max_age
UpdateTrackLate(t, dets) ==
    LET m == {i \in 1..Len(dets) : dets[i].obj = t.obj}
    IN  IF m # {}
        THEN LET d == dets[CHOOSE i \in m : TRUE]
             IN  [t EXCEPT !.hits = @ + 1,
                           !.time_since_update = 0,
                           !.ltrb = d.box,
                           !.cls = d.cls,
                           !.state = IF @ = "tentative" /\ t.hits + 1 >= NInit
                                     THEN "confirmed" ELSE @]
        ELSE [t EXCEPT !.time_since_update = @ + 1,
                       !.state = IF @ = "tentative" THEN "deleted"
                                 ELSE IF t.time_since_update + 1 > MaxAge + 1
                                 THEN "deleted" ELSE @]

\* one track's step in tracker.update_tracks
UpdateTrack(t, dets) ==
    LET m == {i \in 1..Len(dets) : dets[i].obj = t.obj}
    IN  IF m # {}
        THEN LET d == dets[CHOOSE i \in m : TRUE]
             IN  [t EXCEPT !.hits = @ + 1,
                           !.time_since_update = 0,
                           !.ltrb = d.box,
                           !.cls = d.cls,
                           !.state = IF @ = "tentative" /\ t.hits + 1 >= NInit
                                     THEN "confirmed" ELSE @]
        ELSE [t EXCEPT !.time_since_update = @ + 1,
                       !.state = IF @ = "tentative" THEN "deleted"
                                 ELSE IF t.time_since_update + 1 > MaxAge
                                 THEN "deleted" ELSE @]

RECURSIVE KeepLive(_)
KeepLive(ts) ==
    IF Len(ts) = 0 THEN <<>>
    ELSE IF Head(ts).state = "deleted" THEN KeepLive(Tail(ts))
    ELSE <<Head(ts)>> \o KeepLive(Tail(ts))

RECURSIVE Unmatched(_, _, _)
Unmatched(dets, objs, i) ==
    IF i > Len(dets) THEN <<>>
    ELSE IF dets[i].obj \in objs THEN Unmatched(dets, objs, i + 1)
    ELSE <<dets[i]>> \o Unmatched(dets, objs, i + 1)

\* tracker.update_tracks(detections): the tracker after the frame
TrackerUpdate(tr, dets) ==
    LET stepped == [i \in 1..Len(tr.tracks) |-> UpdateTrack(tr.tracks[i], dets)]
        live == KeepLive(stepped)
        lost == {stepped[i].track_id : i \in {k \in 1..Len(stepped) :
                                                stepped[k].state = "deleted"}}
        fresh == Unmatched(dets, {live[i].obj : i \in 1..Len(live)}, 1)
        born == [i \in 1..Len(fresh) |-> NewTrack(tr.next_id + i - 1, fresh[i])]
    IN  [tracks |-> live \o born,
         next_id |-> tr.next_id + Len(fresh),
         deleted |-> tr.deleted \cup lost]

\* what the track loop reads of a track: is_confirmed(), to_ltrb(), track_id,
\* get_det_class()
TrackView(t) ==
    [track_id |-> t.track_id, confirmed |-> (t.state = "confirmed"),
     ltrb |-> t.ltrb, cls |-> t.cls]

-----------------------------------------------------------------------------
(* The capture loop of process_video *)

\* statistics of the players seen in the last sampled frame only
PlayerStatsOfVisible(pl, fc) ==
    [id \in {i \in DOMAIN pl : pl[i].last_seen = fc} |->
        [total_frames |-> Len(pl[id].positions),
         total_distance |-> pl[id].total_distance,
         avg_speed |-> pl[id].avg_speed,
         max_speed |-> pl[id].max_speed,
         possession_percentage |-> Zero]]

\* the final player_stats comprehension
PlayerStats(pl, fc) ==
    [id \in DOMAIN pl |->
        [total_frames |-> Len(pl[id].positions),
         total_distance |-> pl[id].total_distance,
         avg_speed |-> pl[id].avg_speed,
         max_speed |-> pl[id].max_speed,
         possession_percentage |->
             IF fc > 0
             THEN RMul(RDiv(RInt(pl[id].possession_frames),
                            R(fc, SampleStride)), RInt(100))
             ELSE Zero]]

\* what raised in a sampled frame: nothing; the detector ("detector", line
\* 229) or the caller's frame_callback ("callback", line 436), both inside the
\* frame's try block; the reading of one box of object 'who' ("box", lines
\* 246-248); the handling of track 'who' before anything is stored of it
\* ("track", lines 275-277) or after its data was recorded ("draw", the
\* drawing calls of lines 366-387)
NoFault == [kind |-> "none", who |-> 0]

\* the detections whose box could be read (lines 241-260)
RECURSIVE Readable(_, _)
Readable(dets, fault) ==
    IF Len(dets) = 0 THEN <<>>
    ELSE IF fault.kind = "box" /\ Head(dets).obj = fault.who
    THEN Readable(Tail(dets), fault)
    ELSE <<Head(dets)>> \o Readable(Tail(dets), fault)

NoMetrics == [physical |-> <<>>, tactical |-> <<>>, technical |-> <<>>]

Init ==
    /\ frame_count = 0
    /\ players = <<>>
    /\ track_history = <<>>
    /\ feature_history = <<>>
    /\ occlusion_history = <<>>
    /\ frames_data = <<>>
    /\ tracker = [tracks |-> <<>>, next_id |-> 1, deleted |-> {}]
    /\ handled = <<>>
    /\ env \in {[objcls |-> <<PersonClass, c>>, visible |-> TRUE, switches |-> 0, seen |-> 0,
                 fault |-> NoFault, faults |-> 0, dets |-> <<>>] :
                   c \in {PersonClass, BallClass}}
    /\ pc = "reading"
    /\ result = <<>>
    /\ metrics = NoMetrics

\* cap.read() gave a frame whose number is not a multiple of 3: continue
SkipFrame ==
    /\ pc = "reading"
    /\ (frame_count + 1) % SampleStride # 0
    /\ frame_count' = frame_count + 1
    /\ UNCHANGED <<players, track_history, feature_history, occlusion_history,
                   frames_data, tracker, handled, env, pc, result, metrics>>

\* an empty record is appended for the frame whose processing raised
DetectorRaisedRecorded(dets, fault) ==
    /\ frame_count' = frame_count + 1
    /\ handled' = <<>>
    /\ frames_data' = Append(frames_data,
           [frame_number |-> frame_count + 1, players |-> <<>>, ball |-> <<>>])
    /\ env' = [env EXCEPT
                 !.visible = (Len(dets) > 0),
                 !.switches = IF (Len(dets) > 0) = env.visible THEN @ ELSE @ + 1,
                 !.seen = IF Len(dets) > 0 THEN @ + 1 ELSE @,
                 !.fault = fault,
                 !.faults = @ + 1,
                 !.dets = dets]
    /\ UNCHANGED <<players, track_history, feature_history, occlusion_history, tracker>>

\* the frame's try block raised at the detector: except, continue (lines
\* 219-229, 438-440)
DetectorRaised(dets, fault) ==
    /\ frame_count' = frame_count + 1
    /\ handled' = <<>>
    /\ env' = [env EXCEPT
                 !.visible = (Len(dets) > 0),
                 !.switches = IF (Len(dets) > 0) = env.visible THEN @ ELSE @ + 1,
                 !.seen = IF Len(dets) > 0 THEN @ + 1 ELSE @,
                 !.fault = fault,
                 !.faults = @ + 1,
                 !.dets = dets]
    /\ UNCHANGED <<players, track_history, feature_history, occlusion_history,
                   frames_data, tracker>>

\* the body of the frame's try block from the detections on (lines 231-436);
\* seen is the list of detections whose box could be read
FrameBody(dets, seen, fault) ==
    LET fc == frame_count + 1
        yolo == YoloBoxes(seen, 1, <<>>)
        tr == TrackerUpdate(tracker, seen)
        tracks == [i \in 1..Len(tr.tracks) |-> TrackView(tr.tracks[i])]
        acc0 == [yolo |-> yolo,
                 fault |-> fault,
                 players |-> players,
                 track_history |-> track_history,
                 feature_history |-> feature_history,
                 occlusion_history |-> occlusion_history,
                 other_boxes |-> <<>>,
                 frame_players_data |-> <<>>,
                 ball_data |-> <<>>,
                 handled |-> <<>>]
        acc == HandleTracks(acc0, tracks, 1, fc)
    IN  /\ frame_count' = fc
        /\ tracker' = tr
        /\ players' = acc.players
        /\ track_history' = acc.track_history
        /\ feature_history' = acc.feature_history
        /\ occlusion_history' = acc.occlusion_history
        /\ handled' = acc.handled
        /\ frames_data' = Append(frames_data,
               [frame_number |-> fc,
                players |-> acc.frame_players_data,
                ball |-> acc.ball_data])
        /\ env' = [env EXCEPT
                     !.visible = (Len(dets) > 0),
                     !.switches = IF (Len(dets) > 0) = env.visible THEN @ ELSE @ + 1,
                     !.seen = IF Len(dets) > 0 THEN @ + 1 ELSE @,
                     !.fault = fault,
                     !.faults = IF fault = NoFault THEN @ ELSE @ + 1,
                     !.dets = dets]

\* cap.read() gave a frame whose number is a multiple of 3; dets is what is
\* in front of the camera, fault what raises while the frame is processed
ProcessFrame(dets, fault) ==
    /\ pc = "reading"
    /\ (frame_count + 1) % SampleStride = 0
    /\ IF fault.kind = "detector"
       THEN DetectorRaised(dets, fault)
       ELSE FrameBody(dets, Readable(dets, fault), fault)
    /\ UNCHANGED <<pc, result, metrics>>

\* a sampled frame in whose processing nothing raises
SampleFrame(dets) == ProcessFrame(dets, NoFault)

\* cap.read() returned ret = False: leave the loop, build player_stats, return
EndOfVideo ==
    /\ pc = "reading"
    /\ pc' = "done"
    /\ result' = <<[frames |-> frames_data,
                    player_stats |-> PlayerStats(players, frame_count),
                    total_frames |-> frame_count]>>
    /\ UNCHANGED <<frame_count, players, track_history, feature_history,
                   occlusion_history, frames_data, tracker, handled, env, metrics>>

-----------------------------------------------------------------------------
(* Scenes.  Two objects in front of the camera: object 1 stands at BoxC,    *)
(* object 2 (a person or the ball) is at one of three places or out of      *)
(* sight.  BoxD overlaps BoxC with IoU 3/7; BoxB touches BoxC; BoxL is far. *)

BoxL == <<0, 100, 100, 300>>
BoxB == <<440, 100, 540, 300>>
BoxD == <<500, 100, 600, 300>>
BoxC == <<540, 100, 640, 300>>

\* the detector's confidence, and whether a feature vector could be extracted
BoxConf(box) == IF box = BoxL THEN R(4, 5) ELSE IF box = BoxB THEN R(1, 2)
                ELSE IF box = BoxD THEN R(7, 10)
                ELSE IF box[1] = 132 THEN R(3, 10) ELSE R(9, 10)
BoxFeat(obj, box) == IF box = BoxL THEN 0 ELSE obj

Det(obj, box) ==
    [box |-> box, conf |-> BoxConf(box), cls |-> env.objcls[obj],
     feat |-> BoxFeat(obj, box), obj |-> obj]

Scenes ==
    {<<Det(1, BoxC)>>} \cup {<<Det(1, BoxC), Det(2, b)>> : b \in {BoxL, BoxB, BoxD}}

MaxSampled == 5

Next ==
    \/ frame_count < SampleStride * MaxSampled /\ SkipFrame
    \/ frame_count < SampleStride * MaxSampled /\ \E dets \in Scenes : SampleFrame(dets)
    \/ EndOfVideo

Spec == Init /\ [][Next]_vars

-----------------------------------------------------------------------------
(* The same scenes with failures: in at most MaxFaults sampled frames       *)
(* something raises, at the level of the frame, of one box or of one track. *)

MaxSampledFaults == 4
MaxFaults == 1

Faults ==
    {[kind |-> k, who |-> 0] : k \in {"detector", "callback"}}
        \cup {[kind |-> k, who |-> w] : k \in {"box", "track", "draw"}, w \in 1..2}

\* the fault named in env.fault did happen in the last sampled frame
FaultHappened ==
    \/ env.fault.kind \in {"detector", "callback"}
    \/ env.fault.kind = "box" /\ \E i \in 1..Len(env.dets) : env.dets[i].obj = env.fault.who
    \/ /\ env.fault.kind \in {"track", "draw"}
       /\ \E k \in 1..Len(handled) : handled[k].id = env.fault.who /\ handled[k].raised

FaultyFrame(dets, fault) == ProcessFrame(dets, fault) /\ FaultHappened'

NextFaults ==
    \/ frame_count < SampleStride * MaxSampledFaults /\ SkipFrame
    \/ frame_count < SampleStride * MaxSampledFaults /\ \E dets \in Scenes : SampleFrame(dets)
    \/ /\ frame_count < SampleStride * MaxSampledFaults
       /\ env.faults < MaxFaults
       /\ \E dets \in Scenes : \E fault \in Faults : FaultyFrame(dets, fault)
    \/ EndOfVideo

SpecFaults == Init /\ [][NextFaults]_vars

-----------------------------------------------------------------------------
(* A long video of one person.  The person walks (the box moves a few       *)
(* pixels per sampled frame), may leave the picture, and comes back either  *)
(* when the tracker keeps no track or when its track is at the edge of     *)
(* max_age, so that both sides of the tracker's deletion rule are met.      *)

LongBox(n) == <<120 + 12 * (n % 3), 100, 220 + 12 * (n % 3), 300>>

MaxSampledLong == 40
MaxVisible == 33
MaxSwitches == 2

CanShow ==
    /\ env.seen < MaxVisible
    /\ env.visible \/ env.switches < MaxSwitches
    /\ \/ env.visible
       \/ Len(tracker.tracks) = 0
       \/ \E i \in 1..Len(tracker.tracks) : tracker.tracks[i].time_since_update >= MaxAge

CanHide == ~env.visible \/ env.switches < MaxSwitches

LongScenes ==
    {s \in {<<>>, <<Det(1, LongBox(env.seen))>>} :
        IF Len(s) = 0 THEN CanHide ELSE CanShow}

InitLong == Init /\ env.objcls = <<PersonClass, PersonClass>>

NextLong ==
    \/ frame_count < SampleStride * MaxSampledLong /\ SkipFrame
    \/ frame_count < SampleStride * MaxSampledLong /\ \E dets \in LongScenes : SampleFrame(dets)
    \/ EndOfVideo

SpecLong == InitLong /\ [][NextLong]_vars

-----------------------------------------------------------------------------
(* PhysicalAnalyzer.  A frame is a Frame Record: 'players' is a list of     *)
(* player entries, of which the engine reads players[0]['position'].        *)

FramesPerSecond == 30
WalkingMax == 2
JoggingMax == 4
RunningMax == 7
SprintMin == 8
MaxEffortSpeed == 9

_calculate_frame_distance(prev_frame, curr_frame) ==
    IF Len(prev_frame.players) = 0 \/ Len(curr_frame.players) = 0 THEN Zero
    ELSE Hypot(RSub(curr_frame.players[1].position[1], prev_frame.players[1].position[1]),
               RSub(curr_frame.players[1].position[2], prev_frame.players[1].position[2]))

\* the distance computed at each turn of "for i in range(1, len(player_frames))"
StepDistances(player_frames) ==
    [i \in 1..(Len(player_frames) - 1) |->
        _calculate_frame_distance(player_frames[i], player_frames[i + 1])]

\* speed = distance * 30
StepSpeed(distance) == RMul(distance, RInt(FramesPerSecond))

RECURSIVE RMaxOf(_)
RMaxOf(s) == IF Len(s) = 1 THEN s[1] ELSE RMax(Head(s), RMaxOf(Tail(s)))

\* np.mean(xs) if xs else 0, max(xs) if xs else 0
MeanOrZero(s) == IF Len(s) = 0 THEN Zero ELSE RDiv(RSum(s), RInt(Len(s)))
MaxOrZero(s) == IF Len(s) = 0 THEN Zero ELSE RMaxOf(s)

Percent(count, total) == RMul(R(count, total), RInt(100))

PhysicalEmptyAnalysis ==
    [distance |-> [total_distance |-> Zero,
                   high_intensity_distance |-> Zero,
                   sprint_distance |-> Zero],
     speed |-> [avg_speed |-> Zero,
                max_speed |-> Zero,
                speed_zones |-> [walking |-> Zero, jogging |-> Zero,
                                 running |-> Zero, sprinting |-> Zero]],
     sprints |-> [total_sprints |-> 0,
                  avg_sprint_distance |-> Zero,
                  max_sprint_distance |-> Zero],
     effort |-> [total_effort |-> Zero,
                 effort_zones |-> [low |-> Zero, medium |-> Zero, high |-> Zero]]]

IsHighIntensityInclusive(distance) == RLe(RInt(RunningMax), StepSpeed(distance))
IsHighIntensity(distance) == RLt(RInt(RunningMax), StepSpeed(distance))
IsSprint(distance) == RLt(RInt(SprintMin), StepSpeed(distance))

DistancesResult(d) ==
    [total_distance |-> RSum(d),
     high_intensity_distance |-> RSum(SelectSeq(d, IsHighIntensity)),
     sprint_distance |-> RSum(SelectSeq(d, IsSprint))]

_calculate_distances(player_frames) == DistancesResult(StepDistances(player_frames))

\* the zones with their upper thresholds left out
SpeedZoneStrict(speed) ==
    IF RLt(speed, RInt(WalkingMax)) THEN "walking"
    ELSE IF RLt(speed, RInt(JoggingMax)) THEN "jogging"
    ELSE IF RLt(speed, RInt(RunningMax)) THEN "running"
    ELSE "sprinting"

\* the if / elif chain of _calculate_speeds
SpeedZone(speed) ==
    IF RLe(speed, RInt(WalkingMax)) THEN "walking"
    ELSE IF RLe(speed, RInt(JoggingMax)) THEN "jogging"
    ELSE IF RLe(speed, RInt(RunningMax)) THEN "running"
    ELSE "sprinting"

\* zone -> number of steps counted in it
ZoneCounts(zones) ==
    [z \in {"walking", "jogging", "running", "sprinting"} |->
        Cardinality({i \in 1..Len(zones) : zones[i] = z})]

SpeedsResult(speeds, counts) ==
    [avg_speed |-> MeanOrZero(speeds),
     max_speed |-> MaxOrZero(speeds),
     speed_zones |->
         [z \in DOMAIN counts |->
             IF Len(speeds) > 0 THEN Percent(counts[z], Len(speeds)) ELSE Zero]]

SpeedsOf(speeds) ==
    SpeedsResult(speeds, ZoneCounts([i \in 1..Len(speeds) |-> SpeedZone(speeds[i])]))

StepSpeeds(d) == [i \in 1..Len(d) |-> StepSpeed(d[i])]

_calculate_speeds(player_frames) == SpeedsOf(StepSpeeds(StepDistances(player_frames)))

\* the loop of _analyze_sprints without the closing append
RECURSIVE SprintDistancesClosed(_, _, _, _, _)
SprintDistancesClosed(d, i, current_sprint, is_sprinting, sprint_distances) ==
    IF i > Len(d) THEN sprint_distances
    ELSE IF IsSprint(d[i])
    THEN SprintDistancesClosed(d, i + 1, RAdd(current_sprint, d[i]), TRUE, sprint_distances)
    ELSE IF is_sprinting
    THEN SprintDistancesClosed(d, i + 1, Zero, FALSE,
                               IF RLt(Zero, current_sprint)
                               THEN Append(sprint_distances, current_sprint)
                               ELSE sprint_distances)
    ELSE SprintDistancesClosed(d, i + 1, current_sprint, is_sprinting, sprint_distances)

\* the loop of _analyze_sprints from step i on, then the closing append
RECURSIVE SprintDistances(_, _, _, _, _)
SprintDistances(d, i, current_sprint, is_sprinting, sprint_distances) ==
    IF i > Len(d)
    THEN IF RLt(Zero, current_sprint)
         THEN Append(sprint_distances, current_sprint) ELSE sprint_distances
    ELSE IF IsSprint(d[i])
    THEN SprintDistances(d, i + 1, RAdd(current_sprint, d[i]), TRUE, sprint_distances)
    ELSE IF is_sprinting
    THEN SprintDistances(d, i + 1, Zero, FALSE,
                         IF RLt(Zero, current_sprint)
                         THEN Append(sprint_distances, current_sprint)
                         ELSE sprint_distances)
    ELSE SprintDistances(d, i + 1, current_sprint, is_sprinting, sprint_distances)

SprintsResult(sprint_distances) ==
    [total_sprints |-> Len(sprint_distances),
     avg_sprint_distance |-> MeanOrZero(sprint_distances),
     max_sprint_distance |-> MaxOrZero(sprint_distances)]

_analyze_sprints(player_frames) ==
    SprintsResult(SprintDistances(StepDistances(player_frames), 1, Zero, FALSE, <<>>))

\* effort = min(100, (speed / 9) * 100)
StepEffort(distance) ==
    RMin(RInt(100), RMul(RDiv(StepSpeed(distance), RInt(MaxEffortSpeed)), RInt(100)))

EffortZone(effort) ==
    IF RLt(effort, RInt(50)) THEN "low"
    ELSE IF RLt(effort, RInt(80)) THEN "medium"
    ELSE "high"

EffortZoneCount(zones, z) == Cardinality({i \in 1..Len(zones) : zones[i] = z})

EffortZones(zones) ==
    [z \in {"low", "medium", "high"} |->
        IF Len(zones) > 0 THEN Percent(EffortZoneCount(zones, z), Len(zones)) ELSE Zero]

\* the accumulated effort divided by the number of steps
EffortResultPerStep(efforts, n_frames) ==
    [total_effort |-> IF Len(efforts) > 0 THEN RDiv(RSum(efforts), RInt(Len(efforts)))
                      ELSE Zero,
     effort_zones |-> EffortZones([i \in 1..Len(efforts) |-> EffortZone(efforts[i])])]

EffortResult(efforts, n_frames) ==
    [total_effort |-> IF n_frames > 0 THEN RDiv(RSum(efforts), RInt(n_frames)) ELSE Zero,
     effort_zones |-> EffortZones([i \in 1..Len(efforts) |-> EffortZone(efforts[i])])]

StepEfforts(d) == [i \in 1..Len(d) |-> StepEffort(d[i])]

_analyze_effort(player_frames) ==
    EffortResult(StepEfforts(StepDistances(player_frames)), Len(player_frames))

PhysicalAnalyze(player_frames) ==
    IF Len(player_frames) = 0 THEN PhysicalEmptyAnalysis
    ELSE [distance |-> _calculate_distances(player_frames),
          speed |-> _calculate_speeds(player_frames),
          sprints |-> _analyze_sprints(player_frames),
          effort |-> _analyze_effort(player_frames)]

-----------------------------------------------------------------------------
(* TechnicalAnalyzer.  'ball' of a Frame Record is <<>> (None) or <<b>>.    *)

pass_threshold == R(7, 10)
shot_threshold == R(8, 10)
possession_threshold == RInt(2)
LongPassMin == 20

HasBall(frame) == Len(frame.ball) > 0

_calculate_ball_movement(pos1, pos2) ==
    Hypot(RSub(pos2[1], pos1[1]), RSub(pos2[2], pos1[2]))

_calculate_ball_velocity(pos1, pos2) ==
    RMul(_calculate_ball_movement(pos1, pos2), RInt(FramesPerSecond))

_is_pass_successful(current_frame, next_frame) == TRUE
_is_shot_on_target(ball_position) == TRUE
_is_goal(ball_position) == TRUE

_is_player_in_possession(player_pos, ball_pos) ==
    RLt(_calculate_ball_movement(player_pos, ball_pos), possession_threshold)

\* per pair of consecutive frames: <<ball_movement>>, or <<>> when one of the
\* two frames has no ball
BallMovements(frames_in) ==
    [i \in 1..(Len(frames_in) - 1) |->
        IF HasBall(frames_in[i]) /\ HasBall(frames_in[i + 1])
        THEN <<_calculate_ball_movement(frames_in[i].ball[1].position,
                                        frames_in[i + 1].ball[1].position)>>
        ELSE <<>>]

IsPass(m) == Len(m) > 0 /\ RLt(pass_threshold, m[1])
IsLongPassInclusive(m) == IsPass(m) /\ RLe(RInt(LongPassMin), m[1])
IsLongPass(m) == IsPass(m) /\ RLt(RInt(LongPassMin), m[1])
IsShot(m) == Len(m) > 0 /\ RLt(shot_threshold, RMul(m[1], RInt(FramesPerSecond)))

Count(s, Test(_)) == Cardinality({i \in 1..Len(s) : Test(s[i])})

PassAccuracy(total, successful) ==
    IF total > 0 THEN Percent(successful, total) ELSE Zero

PassesResult(frames_in, m) ==
    [total_passes |-> Count(m, IsPass),
     successful_passes |->
         Cardinality({i \in 1..Len(m) :
             IsPass(m[i]) /\ _is_pass_successful(frames_in[i], frames_in[i + 1])}),
     pass_accuracy |->
         PassAccuracy(Count(m, IsPass),
             Cardinality({i \in 1..Len(m) :
                 IsPass(m[i]) /\ _is_pass_successful(frames_in[i], frames_in[i + 1])})),
     long_passes |-> Count(m, IsLongPass),
     short_passes |-> Count(m, LAMBDA x : IsPass(x) /\ ~IsLongPass(x))]

_analyze_passes(frames_in) == PassesResult(frames_in, BallMovements(frames_in))

ShotsCounted(total, on_target, goals) ==
    [total_shots |-> total,
     shots_on_target |-> on_target,
     goals |-> goals,
     shot_accuracy |-> IF total > 0 THEN Percent(on_target, total) ELSE Zero]

ShotsResult(frames_in, m) ==
    ShotsCounted(
        Count(m, IsShot),
        Cardinality({i \in 1..Len(m) :
            IsShot(m[i]) /\ _is_shot_on_target(frames_in[i + 1].ball[1].position)}),
        Cardinality({i \in 1..Len(m) :
            /\ IsShot(m[i])
            /\ _is_shot_on_target(frames_in[i + 1].ball[1].position)
            /\ _is_goal(frames_in[i + 1].ball[1].position)}))

_analyze_shots(frames_in) == ShotsResult(frames_in, BallMovements(frames_in))

\* the number of players in possession in one frame
FrameTouches(frame) ==
    IF HasBall(frame)
    THEN Cardinality({k \in 1..Len(frame.players) :
            _is_player_in_possession(frame.players[k].position, frame.ball[1].position)})
    ELSE 0

RECURSIVE Touches(_)
Touches(frames_in) ==
    IF Len(frames_in) = 0 THEN 0
    ELSE FrameTouches(Head(frames_in)) + Touches(Tail(frames_in))

\* the percentage computed without the "total_duration > 0" test
PossessionResultUnguarded(touches, n_frames) ==
    IF n_frames = 0 THEN [error |-> "ZeroDivisionError"]
    ELSE [total_touches |-> touches,
          possession_duration |-> R(touches, FramesPerSecond),
          possession_percentage |->
              RMul(RDiv(R(touches, FramesPerSecond), R(n_frames, FramesPerSecond)),
                   RInt(100))]

PossessionResult(touches, n_frames) ==
    [total_touches |-> touches,
     possession_duration |-> R(touches, FramesPerSecond),
     possession_percentage |->
         IF n_frames > 0
         THEN RMul(RDiv(R(touches, FramesPerSecond), R(n_frames, FramesPerSecond)),
                   RInt(100))
         ELSE Zero]

_analyze_possession(frames_in) == PossessionResult(Touches(frames_in), Len(frames_in))

_analyze_tackles(frames_in) ==
    [successful_tackles |-> 0, failed_tackles |-> 0, tackle_success_rate |-> Zero]

_analyze_interceptions(frames_in) ==
    [total_interceptions |-> 0, successful_interceptions |-> 0]

TechnicalAnalyze(frames_in) ==
    [passes |-> _analyze_passes(frames_in),
     shots |-> _analyze_shots(frames_in),
     ball_possession |-> _analyze_possession(frames_in),
     tackles |-> _analyze_tackles(frames_in),
     interceptions |-> _analyze_interceptions(frames_in)]

-----------------------------------------------------------------------------
(* TacticalAnalyzer.  A player entry may carry 'has_ball' and 'team_id';    *)
(* the engine reads them with dict.get, so an entry without them counts as  *)
(* has_ball = False, team_id = None (written 0; team ids are positive).     *)

FieldWidth == 105
FieldHeight == 68
GridSize == 10
OptimalTeamDistance == 20
OptimalSpaceDistance == 15
ShortPassMax == 15
MediumPassMax == 30
SupportRangeMin == 10
SupportRangeMax == 30
OccupiedSpaceCap == 100

ZoneNames ==
    {"defensive_third", "middle_third", "attacking_third", "left_wing", "center", "right_wing"}

\* _create_field_zones: zone -> (x1, y1, x2, y2)
Zones ==
    [z \in ZoneNames |->
        CASE z = "defensive_third" -> <<Zero, Zero, R(FieldWidth, 3), RInt(FieldHeight)>>
          [] z = "middle_third" ->
                 <<R(FieldWidth, 3), Zero, R(2 * FieldWidth, 3), RInt(FieldHeight)>>
          [] z = "attacking_third" ->
                 <<R(2 * FieldWidth, 3), Zero, RInt(FieldWidth), RInt(FieldHeight)>>
          [] z = "left_wing" -> <<Zero, Zero, RInt(FieldWidth), R(FieldHeight, 3)>>
          [] z = "center" ->
                 <<Zero, R(FieldHeight, 3), RInt(FieldWidth), R(2 * FieldHeight, 3)>>
          [] z = "right_wing" ->
                 <<Zero, R(2 * FieldHeight, 3), RInt(FieldWidth), RInt(FieldHeight)>>]

_is_in_zone(position, zone_bounds) ==
    /\ RLe(zone_bounds[1], position[1]) /\ RLe(position[1], zone_bounds[3])
    /\ RLe(zone_bounds[2], position[2]) /\ RLe(position[2], zone_bounds[4])

PlayerGet(player, key, dflt) == IF key \in DOMAIN player THEN player[key] ELSE dflt

_has_ball(frame) ==
    IF Len(frame.players) = 0 THEN FALSE
    ELSE PlayerGet(frame.players[1], "has_ball", FALSE)

Dist(p, q) == Hypot(RSub(p[1], q[1]), RSub(p[2], q[2]))

\* np.mean(positions, axis=0)
MeanPosition(positions) ==
    <<RDiv(RSum([i \in 1..Len(positions) |-> positions[i][1]]), RInt(Len(positions))),
      RDiv(RSum([i \in 1..Len(positions) |-> positions[i][2]]), RInt(Len(positions)))>>

\* [frame['players'][0]['position'] for the frames that have players]
RECURSIVE FirstPositions(_)
FirstPositions(player_frames) ==
    IF Len(player_frames) = 0 THEN <<>>
    ELSE IF Len(Head(player_frames).players) = 0 THEN FirstPositions(Tail(player_frames))
    ELSE <<Head(player_frames).players[1].position>> \o FirstPositions(Tail(player_frames))

\* the cell of the 10 x 10 grid a position falls in: <<grid_y, grid_x>>
GridCell(pos) ==
    <<Min2(RTrunc(RMul(RDiv(pos[2], RInt(FieldHeight)), RInt(GridSize))), GridSize - 1),
      Min2(RTrunc(RMul(RDiv(pos[1], RInt(FieldWidth)), RInt(GridSize))), GridSize - 1)>>

CellCount(cells, cell) == Cardinality({i \in 1..Len(cells) : cells[i] = cell})

\* np.max(heat_map), for a non-empty list of cells
MaxCellCount(cells) ==
    CHOOSE m \in {CellCount(cells, cells[i]) : i \in 1..Len(cells)} :
        \A i \in 1..Len(cells) : CellCount(cells, cells[i]) <= m

\* heat_map / np.max(heat_map): rows grid_y = 0..9 of columns grid_x = 0..9
HeatMapOf(cells, max_count) ==
    [gy \in 1..GridSize |-> [gx \in 1..GridSize |->
        IF max_count > 0 /\ <<gy - 1, gx - 1>> \in SeqRange(cells)
        THEN R(CellCount(cells, <<gy - 1, gx - 1>>), max_count)
        ELSE Zero]]

HeatMapFrom(cells) == HeatMapOf(cells, MaxCellCount(cells))

_create_heat_map(positions) ==
    IF Len(positions) = 0 THEN <<>>
    ELSE HeatMapFrom([i \in 1..Len(positions) |-> GridCell(positions[i])])

PositioningResult(positions, n_frames) ==
    [heat_map |-> _create_heat_map(positions),
     zone_coverage |->
         [z \in ZoneNames |->
             IF n_frames > 0
             THEN Percent(Cardinality({i \in 1..Len(positions) :
                                          _is_in_zone(positions[i], Zones[z])}), n_frames)
             ELSE Zero],
     average_position |-> IF Len(positions) > 0 THEN MeanPosition(positions)
                          ELSE <<Zero, Zero>>]

_analyze_positioning(player_frames) ==
    PositioningResult(FirstPositions(player_frames), Len(player_frames))

\* the first player of end_frame that has the ball, as <<player>>, or <<>>
RECURSIVE Receiver(_, _)
Receiver(ps, k) ==
    IF k > Len(ps) THEN <<>>
    ELSE IF PlayerGet(ps[k], "has_ball", FALSE) THEN <<ps[k]>>
    ELSE Receiver(ps, k + 1)

_is_successful_pass(start_frame, end_frame) ==
    IF Len(start_frame.players) = 0 \/ Len(end_frame.players) = 0 THEN FALSE
    ELSE \E k \in 1..Len(end_frame.players) :
            /\ PlayerGet(end_frame.players[k], "team_id", 0)
                 = PlayerGet(start_frame.players[1], "team_id", 0)
            /\ PlayerGet(end_frame.players[k], "has_ball", FALSE)

_calculate_pass_distance(start_frame, end_frame) ==
    IF Len(start_frame.players) = 0 \/ Len(end_frame.players) = 0 THEN Zero
    ELSE IF Len(Receiver(end_frame.players, 1)) = 0 THEN Zero
    ELSE Dist(Receiver(end_frame.players, 1)[1].position, start_frame.players[1].position)

PassDirectionOf(dx, dy) ==
    IF RLt(RAbs(dy), RAbs(dx))
    THEN (IF RLt(Zero, dx) THEN "forward" ELSE "backward")
    ELSE "lateral"

_calculate_pass_direction(start_frame, end_frame) ==
    IF Len(start_frame.players) = 0 \/ Len(end_frame.players) = 0 THEN "lateral"
    ELSE IF Len(Receiver(end_frame.players, 1)) = 0 THEN "lateral"
    ELSE PassDirectionOf(
            RSub(Receiver(end_frame.players, 1)[1].position[1],
                 start_frame.players[1].position[1]),
            RSub(Receiver(end_frame.players, 1)[1].position[2],
                 start_frame.players[1].position[2]))

\* the thresholds of the pass types taken as closed upper ends
PassTypeInclusive(pass_distance) ==
    IF RLe(pass_distance, RInt(ShortPassMax)) THEN "short"
    ELSE IF RLe(pass_distance, RInt(MediumPassMax)) THEN "medium"
    ELSE "long"

PassType(pass_distance) ==
    IF RLt(pass_distance, RInt(ShortPassMax)) THEN "short"
    ELSE IF RLt(pass_distance, RInt(MediumPassMax)) THEN "medium"
    ELSE "long"

\* the turns of the loop of _analyze_passing that record a pass
PassTurns(player_frames, team_frames) ==
    {i \in 1..(Len(player_frames) - 1) :
        /\ _has_ball(player_frames[i])
        /\ ~_has_ball(player_frames[i + 1])
        /\ _is_successful_pass(player_frames[i], team_frames[i + 1])}

PassingResult(player_frames, team_frames, turns) ==
    [total_passes |-> Cardinality(turns),
     successful_passes |-> Cardinality(turns),
     pass_types |->
         [t \in {"short", "medium", "long"} |->
             Cardinality({i \in turns :
                 PassType(_calculate_pass_distance(player_frames[i], team_frames[i + 1])) = t})],
     pass_directions |->
         [d \in {"forward", "backward", "lateral"} |->
             Cardinality({i \in turns :
                 _calculate_pass_direction(player_frames[i], team_frames[i + 1]) = d})]]

_analyze_passing(player_frames, team_frames) ==
    PassingResult(player_frames, team_frames, PassTurns(player_frames, team_frames))

TeamPositions(team_frame) ==
    [k \in 1..Len(team_frame.players) |-> team_frame.players[k].position]

\* 1 - min(1, abs(distance - optimal) / optimal)
OptimalityScore(distance, optimal) ==
    RSub(One, RMin(One, RDiv(RAbs(RSub(distance, RInt(optimal))), RInt(optimal))))

_evaluate_team_positioning(position, team_positions) ==
    IF Len(team_positions) = 0 THEN Zero
    ELSE OptimalityScore(Dist(position, MeanPosition(team_positions)), OptimalTeamDistance)

_calculate_available_space(position, team_positions) ==
    IF Len(team_positions) = 0 THEN Zero
    ELSE OptimalityScore(
            RDiv(RSum([k \in 1..Len(team_positions) |-> Dist(position, team_positions[k])]),
                 RInt(Len(team_positions))),
            OptimalSpaceDistance)

_evaluate_movement_quality(prev_frame, curr_frame, team_frame) ==
    IF Len(prev_frame.players) = 0 \/ Len(curr_frame.players) = 0 THEN Zero
    ELSE RMin(One,
              RAdd(RMul(Dist(curr_frame.players[1].position, prev_frame.players[1].position),
                        R(4, 10)),
                   RMul(_evaluate_team_positioning(curr_frame.players[1].position,
                                                   TeamPositions(team_frame)),
                        R(6, 10))))

\* the team mates of players[0] of frame, in team_frame
Others(frame, team_frame) ==
    SelectSeq(team_frame.players, LAMBDA p : p.id # frame.players[1].id)

_calculate_space_creation(prev_frame, curr_frame, team_frame) ==
    IF Len(prev_frame.players) = 0 \/ Len(curr_frame.players) = 0 THEN Zero
    ELSE RSum([k \in 1..Len(Others(prev_frame, team_frame)) |->
            RMax(Zero,
                 RSub(Dist(Others(prev_frame, team_frame)[k].position,
                           prev_frame.players[1].position),
                      Dist(Others(prev_frame, team_frame)[k].position,
                           curr_frame.players[1].position)))])

InSupportRange(distance) ==
    RLt(RInt(SupportRangeMin), distance) /\ RLt(distance, RInt(SupportRangeMax))

\* a support run taken as a step that ends nearer to the carrier
SupportRunTowardCarrier(prev_frame, curr_frame, team_frame) ==
    IF Len(prev_frame.players) = 0 \/ Len(curr_frame.players) = 0 THEN FALSE
    ELSE IF Len(Receiver(team_frame.players, 1)) = 0 THEN FALSE
    ELSE /\ RLt(Dist(curr_frame.players[1].position,
                     Receiver(team_frame.players, 1)[1].position),
                Dist(prev_frame.players[1].position,
                     Receiver(team_frame.players, 1)[1].position))
         /\ InSupportRange(Dist(curr_frame.players[1].position,
                                Receiver(team_frame.players, 1)[1].position))

_is_support_run(prev_frame, curr_frame, team_frame) ==
    IF Len(prev_frame.players) = 0 \/ Len(curr_frame.players) = 0 THEN FALSE
    ELSE IF Len(Receiver(team_frame.players, 1)) = 0 THEN FALSE
    ELSE /\ RLt(prev_frame.players[1].position[1], curr_frame.players[1].position[1])
         /\ InSupportRange(Dist(curr_frame.players[1].position,
                                Receiver(team_frame.players, 1)[1].position))

\* the turns of the loop of _analyze_off_ball_movement that pass its test
OffBallTurns(player_frames) ==
    [i \in 1..(Len(player_frames) - 1) |-> ~_has_ball(player_frames[i])]

PerFrame(total, n_frames) == IF n_frames > 0 THEN RDiv(total, RInt(n_frames)) ELSE total

_analyze_off_ball_movement(player_frames, team_frames) ==
    [movement_score |->
         PerFrame(RSum([i \in 1..(Len(player_frames) - 1) |->
                     IF OffBallTurns(player_frames)[i]
                     THEN _evaluate_movement_quality(player_frames[i], player_frames[i + 1],
                                                     team_frames[i])
                     ELSE Zero]),
                  Len(player_frames)),
     space_creation |->
         PerFrame(RSum([i \in 1..(Len(player_frames) - 1) |->
                     IF OffBallTurns(player_frames)[i]
                     THEN _calculate_space_creation(player_frames[i], player_frames[i + 1],
                                                    team_frames[i])
                     ELSE Zero]),
                  Len(player_frames)),
     support_runs |->
         Cardinality({i \in 1..(Len(player_frames) - 1) :
                         /\ OffBallTurns(player_frames)[i]
                         /\ _is_support_run(player_frames[i], player_frames[i + 1],
                                            team_frames[i])})]

_calculate_occupied_space(frame, team_frame) ==
    IF Len(frame.players) = 0 THEN Zero
    ELSE RSum([k \in 1..Len(Others(frame, team_frame)) |->
            RMin(RInt(OccupiedSpaceCap),
                 Dist(Others(frame, team_frame)[k].position, frame.players[1].position))])

CreatedSpaceOf(distance) ==
    IF InSupportRange(distance) THEN RSub(distance, RInt(SupportRangeMin)) ELSE Zero

_calculate_created_space(frame, team_frame) ==
    IF Len(frame.players) = 0 THEN Zero
    ELSE RSum([k \in 1..Len(Others(frame, team_frame)) |->
            CreatedSpaceOf(Dist(Others(frame, team_frame)[k].position,
                                frame.players[1].position))])

_evaluate_space_usage(frame, team_frame) ==
    IF Len(frame.players) = 0 THEN Zero
    ELSE RMin(One,
              RAdd(RMul(_evaluate_team_positioning(frame.players[1].position,
                                                   TeamPositions(team_frame)),
                        R(6, 10)),
                   RMul(_calculate_available_space(frame.players[1].position,
                                                   TeamPositions(team_frame)),
                        R(4, 10))))

_analyze_space_utilization(player_frames, team_frames) ==
    [space_score |->
         PerFrame(RSum([i \in 1..Len(player_frames) |->
                     _evaluate_space_usage(player_frames[i], team_frames[i])]),
                  Len(player_frames)),
     space_created |->
         PerFrame(RSum([i \in 1..Len(player_frames) |->
                     _calculate_created_space(player_frames[i], team_frames[i])]),
                  Len(player_frames)),
     space_occupied |->
         PerFrame(RSum([i \in 1..Len(player_frames) |->
                     _calculate_occupied_space(player_frames[i], team_frames[i])]),
                  Len(player_frames))]

TacticalEmptyAnalysis ==
    [positioning |-> [heat_map |-> <<>>,
                      zone_coverage |-> <<>>,
                      average_position |-> <<Zero, Zero>>],
     passing |-> [total_passes |-> 0,
                  successful_passes |-> 0,
                  pass_types |-> [short |-> 0, medium |-> 0, long |-> 0],
                  pass_directions |-> [forward |-> 0, backward |-> 0, lateral |-> 0]],
     off_ball_movement |-> [movement_score |-> Zero,
                            space_creation |-> Zero,
                            support_runs |-> 0],
     space_utilization |-> [space_score |-> Zero,
                            space_created |-> Zero,
                            space_occupied |-> Zero]]

\* analyze(player_frames, team_frames).  The loops read team_frames[i] for
\* every index i of player_frames: a shorter team_frames is an IndexError.
TacticalAnalyze(player_frames, team_frames) ==
    IF Len(player_frames) = 0 \/ Len(team_frames) = 0 THEN TacticalEmptyAnalysis
    ELSE IF Len(team_frames) < Len(player_frames) THEN [error |-> "IndexError"]
    ELSE [positioning |-> _analyze_positioning(player_frames),
          passing |-> _analyze_passing(player_frames, team_frames),
          off_ball_movement |-> _analyze_off_ball_movement(player_frames, team_frames),
          space_utilization |-> _analyze_space_utilization(player_frames, team_frames)]

\* every frame is kept, also one left without an entry of the player
RECURSIVE ExtractAllFrames(_, _)
ExtractAllFrames(frames_in, player_id) ==
    IF Len(frames_in) = 0 THEN <<>>
    ELSE <<[Head(frames_in) EXCEPT
              !.players = SelectSeq(Head(frames_in).players, LAMBDA p : p.id = player_id)]>>
         \o ExtractAllFrames(Tail(frames_in), player_id)

\* PlayerAnalyzer._extract_player_frames
RECURSIVE _extract_player_frames(_, _)
_extract_player_frames(frames_in, player_id) ==
    IF Len(frames_in) = 0 THEN <<>>
    ELSE LET mine == SelectSeq(Head(frames_in).players, LAMBDA p : p.id = player_id)
             rest == _extract_player_frames(Tail(frames_in), player_id)
         IN  IF Len(mine) > 0
             THEN <<[Head(frames_in) EXCEPT !.players = mine]>> \o rest
             ELSE rest

-----------------------------------------------------------------------------
(* The metrics engines run on a finished list of Frame Records, in the     *)
(* order of main.py: technical, physical, tactical.  Each result is kept    *)
(* in metrics.                                                              *)

RunPhysical ==
    /\ pc = "done"
    /\ metrics.technical # <<>>
    /\ metrics.physical = <<>>
    /\ metrics' = [metrics EXCEPT !.physical = <<PhysicalAnalyze(frames_data)>>]
    /\ UNCHANGED <<frame_count, players, track_history, feature_history,
                   occlusion_history, frames_data, tracker, handled, env, pc, result>>

RunTechnical ==
    /\ pc = "done"
    /\ metrics.technical = <<>>
    /\ metrics' = [metrics EXCEPT !.technical = <<TechnicalAnalyze(frames_data)>>]
    /\ UNCHANGED <<frame_count, players, track_history, feature_history,
                   occlusion_history, frames_data, tracker, handled, env, pc, result>>

\* the tactical engine on one player's frames, the whole list as team frames
RunTactical(player_id) ==
    /\ pc = "done"
    /\ metrics.physical # <<>>
    /\ metrics.tactical = <<>>
    /\ metrics' = [metrics EXCEPT !.tactical =
                      <<TacticalAnalyze(_extract_player_frames(frames_data, player_id),
                                        frames_data)>>]
    /\ UNCHANGED <<frame_count, players, track_history, feature_history,
                   occlusion_history, frames_data, tracker, handled, env, pc, result>>

-----------------------------------------------------------------------------
(* Inputs of the metrics engines: short lists of Frame Records, either of   *)
(* one player moving along the y axis (the steps hit every speed zone and   *)
(* its thresholds) or of a ball moving along the x axis next to a player    *)
(* (the displacements hit the pass thresholds); any frame may be empty.     *)

MaxLen == 4

PlayerYs == {Zero, R(1, 15), R(1, 10), R(7, 30), R(1, 4), R(9, 20)}
BallXs == {Zero, R(7, 10), RInt(20), RInt(25)}

EmptyShot == [player |-> <<>>, ball |-> <<>>]
PlayerShots == {EmptyShot} \cup {[player |-> <<<<Zero, y>>>>, ball |-> <<>>] : y \in PlayerYs}
BallShots ==
    {EmptyShot} \cup {[player |-> <<<<Zero, Zero>>>>, ball |-> <<<<x, Zero>>>>] : x \in BallXs}

\* the Frame Record of sampled frame number i showing shot
FrameRecord(i, shot) ==
    [frame_number |-> SampleStride * i,
     players |-> IF Len(shot.player) = 0 THEN <<>>
                 ELSE <<[id |-> 1, position |-> shot.player[1]]>>,
     ball |-> IF Len(shot.ball) = 0 THEN <<>> ELSE <<[position |-> shot.ball[1]]>>]

\* the lists of at most MaxLen shots, all of one kind
ShotLists(n) == [1..n -> PlayerShots] \cup [1..n -> BallShots]

InitMetrics ==
    /\ frame_count = 0
    /\ players = <<>>
    /\ track_history = <<>>
    /\ feature_history = <<>>
    /\ occlusion_history = <<>>
    /\ \E n \in 0..MaxLen : \E shots \in ShotLists(n) :
          frames_data = [i \in 1..n |-> FrameRecord(i, shots[i])]
    /\ tracker = [tracks |-> <<>>, next_id |-> 1, deleted |-> {}]
    /\ handled = <<>>
    /\ env = [objcls |-> <<PersonClass, BallClass>>, visible |-> TRUE, switches |-> 0, seen |-> 0,
              fault |-> NoFault, faults |-> 0, dets |-> <<>>]
    /\ pc = "done"
    /\ result = <<>>
    /\ metrics = NoMetrics

NextMetrics ==
    \/ RunPhysical
    \/ RunTechnical
    \/ \E player_id \in {1} : RunTactical(player_id)

SpecMetrics == InitMetrics /\ [][NextMetrics]_vars

-----------------------------------------------------------------------------
(* Inputs of the metrics engines with team mates: short lists of Frame     *)
(* Records in pitch coordinates.  A list shows either player 1 alone, at   *)
(* positions inside and on the borders of the zones of the pitch, or       *)
(* player 1 with player 2, one of them at most carrying the ball; player 1 *)
(* may be missing from a record.  The distances between the positions of   *)
(* players 1 and 2 hit the pass thresholds 15 and 30.                      *)

MaxTeamLen == 3

Pos(x, y) == <<RInt(x), RInt(y)>>

TeamPlayer(id, position, has_ball, team_id) ==
    [id |-> id, position |-> position, has_ball |-> has_ball, team_id |-> team_id]

ZonePositions ==
    {Pos(0, 0), Pos(35, 10), <<RInt(50), R(FieldHeight, 3)>>,
     <<RInt(70), R(2 * FieldHeight, 3)>>, Pos(50, 30), Pos(105, 68)}

ZoneShots ==
    {[players |-> <<>>, ball |-> <<>>]}
    \cup {[players |-> <<TeamPlayer(1, pos, FALSE, 1)>>, ball |-> <<>>] : pos \in ZonePositions}

CarrierPositions == {Pos(49, 30), Pos(49, 42), Pos(16, 12), Pos(40, 30), Pos(20, 30)}

TeamShots ==
    {[players |-> <<TeamPlayer(1, Pos(40, 30), TRUE, 1), TeamPlayer(2, Pos(20, 30), FALSE, 1)>>,
      ball |-> <<>>],
     [players |-> <<TeamPlayer(1, Pos(45, 30), FALSE, 1), TeamPlayer(2, Pos(20, 30), TRUE, 1)>>,
      ball |-> <<>>],
     [players |-> <<TeamPlayer(1, Pos(45, 30), FALSE, 1), TeamPlayer(2, Pos(20, 30), FALSE, 1)>>,
      ball |-> <<>>],
     [players |-> <<TeamPlayer(1, Pos(40, 30), FALSE, 1), TeamPlayer(2, Pos(49, 30), TRUE, 2)>>,
      ball |-> <<>>],
     [players |-> <<TeamPlayer(2, Pos(20, 30), TRUE, 1)>>, ball |-> <<>>]}
    \cup {[players |-> <<TeamPlayer(1, Pos(40, 30), FALSE, 1), TeamPlayer(2, pos, TRUE, 1)>>,
           ball |-> IF pos = Pos(40, 30) THEN <<pos>> ELSE <<>>] : pos \in CarrierPositions}

\* the Frame Record of sampled frame number i showing shot
TeamRecord(i, shot) ==
    [frame_number |-> SampleStride * i,
     players |-> shot.players,
     ball |-> IF Len(shot.ball) = 0 THEN <<>> ELSE <<[position |-> shot.ball[1]]>>]

\* the lists of n shots, all of one kind
TeamShotLists(n) == [1..n -> ZoneShots] \cup [1..n -> TeamShots]

InitTeam ==
    /\ frame_count = 0
    /\ players = <<>>
    /\ track_history = <<>>
    /\ feature_history = <<>>
    /\ occlusion_history = <<>>
    /\ \E n \in 0..MaxTeamLen : \E shots \in TeamShotLists(n) :
          frames_data = [i \in 1..n |-> TeamRecord(i, shots[i])]
    /\ tracker = [tracks |-> <<>>, next_id |-> 1, deleted |-> {}]
    /\ handled = <<>>
    /\ env = [objcls |-> <<PersonClass, BallClass>>, visible |-> TRUE, switches |-> 0, seen |-> 0,
              fault |-> NoFault, faults |-> 0, dets |-> <<>>]
    /\ pc = "done"
    /\ result = <<>>
    /\ metrics = NoMetrics

SpecTeam == InitTeam /\ [][NextMetrics]_vars

-----------------------------------------------------------------------------
(* Properties *)

\* the player ids listed in a Frame Record
RecordIds(rec) == {rec.players[k].id : k \in 1..Len(rec.players)}

\* C1: every track's position history holds at most 30 entries, and a
\* position committed to a full history evicts the oldest entry and becomes
\* the last entry (the rest keeps its order).
C1_BoundedWindow ==
    /\ \A id \in DOMAIN players : Len(players[id].positions) <= 30
    /\ \A k \in 1..Len(handled) :
          (handled[k].best # 0 /\ handled[k].cls = PersonClass) =>
              /\ players[handled[k].id].positions = handled[k].after
              /\ Last(handled[k].after) = handled[k].center
              /\ Len(handled[k].before) = 30 =>
                    /\ Len(handled[k].after) = 30
                    /\ \A j \in 1..29 : handled[k].after[j] = handled[k].before[j + 1]

\* a commit to a full history whose oldest entry differs from the next one
C1_Witness ==
    \E k \in 1..Len(handled) :
        /\ handled[k].best # 0
        /\ Len(handled[k].before) = 30
        /\ handled[k].before[1] # handled[k].before[2]
        /\ handled[k].after[1] = handled[k].before[2]

\* C2: within one frame no detection box is selected as best_box by two
\* different tracks.
C2_InjectiveAssociation ==
    \A j, k \in 1..Len(handled) :
        (j # k /\ handled[j].best # 0) => handled[j].best # handled[k].best

\* last position + mean of the per-step velocities of a history of >= 2
\* positions; the steps telescope, so the mean is (last - first) / (n - 1)
LastPlusMeanVelocity(positions) ==
    <<RAdd(Last(positions)[1],
           RDiv(RSub(Last(positions)[1], positions[1][1]), RInt(Len(positions) - 1))),
      RAdd(Last(positions)[2],
           RDiv(RSub(Last(positions)[2], positions[1][2]), RInt(Len(positions) - 1)))>>

\* the track was updated by the tracker in the previous sampled frame and
\* not in this one
FirstMiss(id) ==
    \E i \in 1..Len(tracker.tracks) :
        tracker.tracks[i].track_id = id /\ tracker.tracks[i].time_since_update = 1

InUnitSquare(position) ==
    /\ RLe(Zero, position[1]) /\ RLe(position[1], One)
    /\ RLe(Zero, position[2]) /\ RLe(position[2], One)

\* C9: every player and ball 'position' of every Frame Record lies in
\* [0,1] x [0,1], predicted and smoothed positions included.
C9_PositionsNormalized ==
    \A k \in 1..Len(frames_data) :
        /\ \A j \in 1..Len(frames_data[k].players) :
              InUnitSquare(frames_data[k].players[j].position)
        /\ \A j \in 1..Len(frames_data[k].ball) :
              InUnitSquare(frames_data[k].ball[j].position)

\* the index of the last Frame Record that lists player id (0 if none does)
LastRecordOf(id) ==
    IF \E k \in 1..Len(frames_data) : id \in RecordIds(frames_data[k])
    THEN CHOOSE k \in 1..Len(frames_data) :
            /\ id \in RecordIds(frames_data[k])
            /\ \A j \in (k + 1)..Len(frames_data) : id \notin RecordIds(frames_data[j])
    ELSE 0

\* the entry of player id in a Frame Record that lists it
EntryOf(rec, id) == rec.players[CHOOSE j \in 1..Len(rec.players) : rec.players[j].id = id]

\* the player_stats entry carries the counters of the Frame Record entry
SameCounters(stats, entry) ==
    /\ stats.total_distance = entry.stats.total_distance
    /\ stats.avg_speed = entry.stats.avg_speed
    /\ stats.max_speed = entry.stats.max_speed
    /\ stats.total_frames = entry.stats.time_in_frame

\* C4: a track that went unmatched for 31 consecutive sampled frames is
\* lost: no track lives through 31 misses, a lost track's id is in no Frame
\* Record after its last update (none of the last 31 and none later, whatever
\* is detected), and the final player_stats keeps its entry with the
\* counters of its last update.
C4_LostAfter31 ==
    /\ \A i \in 1..Len(tracker.tracks) : tracker.tracks[i].time_since_update < 31
    /\ \A id \in tracker.deleted \cap DOMAIN players :
          /\ \A i \in 1..Len(tracker.tracks) : tracker.tracks[i].track_id # id
          /\ LastRecordOf(id) > 0
          /\ LastRecordOf(id) + 31 <= Len(frames_data)
          /\ pc = "done" =>
                /\ id \in DOMAIN result[1].player_stats
                /\ SameCounters(result[1].player_stats[id],
                                EntryOf(frames_data[LastRecordOf(id)], id))

\* the video ended after a player's track was lost and the person came back
\* and was listed again, under a new id
C4_Witness ==
    /\ pc = "done"
    /\ \E id \in tracker.deleted \cap DOMAIN players :
          /\ Len(players[id].positions) > 2
          /\ \E k \in 1..Len(frames_data) :
                k > LastRecordOf(id) + 31 /\ RecordIds(frames_data[k]) # {}

\* C10: the set of ids in the player store only grows, and the final
\* player_stats has an entry for every player id listed in a Frame Record.
C10_TracksPersist ==
    [][/\ DOMAIN players \subseteq DOMAIN players'
       /\ pc' = "done" =>
             \A k \in 1..Len(frames_data') :
                 RecordIds(frames_data'[k]) \subseteq DOMAIN result'[1].player_stats]_vars

\* the video ended with two players in the store, one of them of a lost track
C10_Witness ==
    /\ pc = "done"
    /\ Cardinality(DOMAIN players) >= 2
    /\ \E id \in DOMAIN players : id \in tracker.deleted

\* the documented result of the physical engine with every statistic zero
PhysicalAllZero(r) ==
    /\ DOMAIN r = {"distance", "speed", "sprints", "effort"}
    /\ r.distance = [total_distance |-> Zero, high_intensity_distance |-> Zero,
                     sprint_distance |-> Zero]
    /\ r.speed = [avg_speed |-> Zero, max_speed |-> Zero,
                  speed_zones |-> [walking |-> Zero, jogging |-> Zero,
                                   running |-> Zero, sprinting |-> Zero]]
    /\ r.sprints = [total_sprints |-> 0, avg_sprint_distance |-> Zero,
                    max_sprint_distance |-> Zero]
    /\ r.effort = [total_effort |-> Zero,
                   effort_zones |-> [low |-> Zero, medium |-> Zero, high |-> Zero]]

\* the documented result of the technical engine with every statistic zero
TechnicalAllZero(r) ==
    /\ DOMAIN r = {"passes", "shots", "ball_possession", "tackles", "interceptions"}
    /\ r.passes = [total_passes |-> 0, successful_passes |-> 0, pass_accuracy |-> Zero,
                   long_passes |-> 0, short_passes |-> 0]
    /\ r.shots = [total_shots |-> 0, shots_on_target |-> 0, goals |-> 0,
                  shot_accuracy |-> Zero]
    /\ r.ball_possession = [total_touches |-> 0, possession_duration |-> Zero,
                            possession_percentage |-> Zero]
    /\ r.tackles = [successful_tackles |-> 0, failed_tackles |-> 0,
                    tackle_success_rate |-> Zero]
    /\ r.interceptions = [total_interceptions |-> 0, successful_interceptions |-> 0]

\* the documented result of the tactical engine with every statistic zero
\* (the heat map and the zone coverage are empty)
TacticalAllZero(r) ==
    /\ DOMAIN r = {"positioning", "passing", "off_ball_movement", "space_utilization"}
    /\ r.positioning = [heat_map |-> <<>>, zone_coverage |-> <<>>,
                        average_position |-> <<Zero, Zero>>]
    /\ r.passing = [total_passes |-> 0, successful_passes |-> 0,
                    pass_types |-> [short |-> 0, medium |-> 0, long |-> 0],
                    pass_directions |-> [forward |-> 0, backward |-> 0, lateral |-> 0]]
    /\ r.off_ball_movement = [movement_score |-> Zero, space_creation |-> Zero,
                              support_runs |-> 0]
    /\ r.space_utilization = [space_score |-> Zero, space_created |-> Zero,
                              space_occupied |-> Zero]

\* C5: called on an empty sequence, the physical, the technical and the
\* tactical engine each return their documented result structure with every
\* statistic zero, and no error.
C5_EmptyInputAllZero ==
    /\ (frames_data = <<>> /\ metrics.physical # <<>>) =>
          PhysicalAllZero(metrics.physical[1])
    /\ (frames_data = <<>> /\ metrics.technical # <<>>) =>
          TechnicalAllZero(metrics.technical[1])
    /\ (_extract_player_frames(frames_data, 1) = <<>> /\ metrics.tactical # <<>>) =>
          TacticalAllZero(metrics.tactical[1])

\* the three engines have run on the empty list of Frame Records
C5_Witness ==
    /\ frames_data = <<>>
    /\ metrics.physical # <<>>
    /\ metrics.technical # <<>>
    /\ metrics.tactical # <<>>

\* the steps of d whose speed (distance * 30) is above lo and at most hi
StepsBetween(d, lo, hi) ==
    {i \in 1..Len(d) : /\ RLt(RInt(lo), RMul(d[i], RInt(30)))
                       /\ RLe(RMul(d[i], RInt(30)), RInt(hi))}

\* the steps of d whose speed is at most hi, and those above lo
StepsUpTo(d, hi) == {i \in 1..Len(d) : RLe(RMul(d[i], RInt(30)), RInt(hi))}
StepsAbove(d, lo) == {i \in 1..Len(d) : RLt(RInt(lo), RMul(d[i], RInt(30)))}

\* the zone percentages of a result are those of the steps d
ZonesOfSteps(zones, d) ==
    /\ zones.walking = Percent(Cardinality(StepsUpTo(d, 2)), Len(d))
    /\ zones.jogging = Percent(Cardinality(StepsBetween(d, 2, 4)), Len(d))
    /\ zones.running = Percent(Cardinality(StepsBetween(d, 4, 7)), Len(d))
    /\ zones.sprinting = Percent(Cardinality(StepsAbove(d, 7)), Len(d))
    /\ RAdd(RAdd(zones.walking, zones.jogging), RAdd(zones.running, zones.sprinting))
          = RInt(100)

\* the Frame Records of one player at (0,0), (0,0.1), (0,0.25), (0,0.45)
ScenarioA ==
    [i \in 1..4 |->
        FrameRecord(i, [player |-> <<<<Zero, <<Zero, R(1, 10), R(1, 4), R(9, 20)>>[i]>>>>,
                        ball |-> <<>>])]

\* C7: every step is counted in exactly one speed zone by its speed
\* distance * 30: walking up to 2, jogging above 2 up to 4, running above 4
\* up to 7, sprinting above 7, and with at least one step the four
\* percentages sum to 100; the positions (0,0), (0,0.1), (0,0.25), (0,0.45)
\* give one jogging and two running steps and no sprint.
C7_SpeedZones ==
    (metrics.physical # <<>> /\ Len(frames_data) > 1) =>
        /\ ZonesOfSteps(metrics.physical[1].speed.speed_zones, StepDistances(frames_data))
        /\ frames_data = ScenarioA =>
              /\ metrics.physical[1].speed.speed_zones =
                    [walking |-> Zero, jogging |-> R(100, 3),
                     running |-> R(200, 3), sprinting |-> Zero]
              /\ metrics.physical[1].sprints.total_sprints = 0

\* the physical engine has run on the four frames of the example
C7_Witness == frames_data = ScenarioA /\ metrics.physical # <<>>

\* the pairs of consecutive frames that both have a ball whose displacement
\* is above limit
PairsAbove(frames_in, limit) ==
    {i \in 1..(Len(frames_in) - 1) :
        /\ Len(frames_in[i].ball) > 0
        /\ Len(frames_in[i + 1].ball) > 0
        /\ RLt(limit, Hypot(RSub(frames_in[i + 1].ball[1].position[1],
                                 frames_in[i].ball[1].position[1]),
                            RSub(frames_in[i + 1].ball[1].position[2],
                                 frames_in[i].ball[1].position[2])))}

\* C8: each pair of consecutive frames that both have a ball and a ball
\* displacement above the pass threshold counts as exactly one pass, long
\* when the displacement is above 20 and short otherwise; long_passes +
\* short_passes = total_passes, and a pair with a frame without a ball
\* counts nothing.
C8_PassCounts ==
    metrics.technical # <<>> =>
        /\ metrics.technical[1].passes.total_passes =
              Cardinality(PairsAbove(frames_data, R(7, 10)))
        /\ metrics.technical[1].passes.long_passes =
              Cardinality(PairsAbove(frames_data, RInt(20)))
        /\ metrics.technical[1].passes.short_passes =
              Cardinality(PairsAbove(frames_data, R(7, 10)) \ PairsAbove(frames_data, RInt(20)))
        /\ metrics.technical[1].passes.long_passes + metrics.technical[1].passes.short_passes
              = metrics.technical[1].passes.total_passes

\* the technical engine has run on a ball moved by 25, then by 5, then gone
C8_Witness ==
    /\ metrics.technical # <<>>
    /\ Len(frames_data) = 4
    /\ \A i \in 1..3 : Len(frames_data[i].ball) > 0
    /\ frames_data[1].ball[1].position = <<Zero, Zero>>
    /\ frames_data[2].ball[1].position = <<RInt(25), Zero>>
    /\ frames_data[3].ball[1].position = <<RInt(20), Zero>>
    /\ Len(frames_data[4].ball) = 0
    /\ metrics.technical[1].passes.long_passes = 1
    /\ metrics.technical[1].passes.short_passes = 1

\* the indices of the Frame Records that list player id, in increasing order
RECURSIVE IndicesOf(_, _)
IndicesOf(id, k) ==
    IF k > Len(frames_data) THEN <<>>
    ELSE IF id \in RecordIds(frames_data[k]) THEN <<k>> \o IndicesOf(id, k + 1)
    ELSE IndicesOf(id, k + 1)

\* pf is the list of the records at the indices at, each cut down to the
\* entries of player id
IsPlayerFrameSequence(pf, at, id) ==
    /\ Len(pf) = Len(at)
    /\ \A j \in 1..Len(pf) :
          /\ pf[j].frame_number = frames_data[at[j]].frame_number
          /\ pf[j].ball = frames_data[at[j]].ball
          /\ Len(pf[j].players) >= 1
          /\ \A i \in 1..Len(pf[j].players) : pf[j].players[i].id = id
          /\ pf[j].players =
                SelectSeq(frames_data[at[j]].players, LAMBDA p : p.id = id)

\* C11: Frame Records carry the numbers of every 3rd decoded frame only and
\* in strictly increasing order, and the Player Frame Sequence of a player id
\* is made of exactly the records that list the id, in their order, each with
\* at least one player entry and only entries of that id.
C11_SampledRecordsAndExtraction ==
    /\ \A k \in 1..Len(frames_data) :
          /\ frames_data[k].frame_number % 3 = 0
          /\ frames_data[k].frame_number <= frame_count
          /\ k > 1 => frames_data[k - 1].frame_number < frames_data[k].frame_number
    /\ \A id \in 1..3 :
          IsPlayerFrameSequence(_extract_player_frames(frames_data, id),
                                IndicesOf(id, 1), id)

\* player 2 is listed next to player 1 in some records and missing in others
C11_Witness ==
    /\ Len(frames_data) >= 2
    /\ Len(IndicesOf(2, 1)) >= 1
    /\ Len(IndicesOf(2, 1)) < Len(IndicesOf(1, 1))
    /\ \E k \in 1..Len(frames_data) : RecordIds(frames_data[k]) = {1, 2}

\* the step processes a sampled frame
SampledStep == frame_count' # frame_count /\ frame_count' % 3 = 0

\* C12 (as stated): a sampled frame whose processing raises leaves no Frame
\* Record and the loop goes on.
C12_RaisedFrameLeavesNoRecord ==
    [][(SampledStep /\ env'.fault.kind \in {"detector", "callback"}) =>
           /\ frames_data' = frames_data
           /\ pc' = "reading"]_vars

\* C12 (amended): a sampled frame whose processing raises before its Frame
\* Record is appended leaves no record, one whose frame callback raises
\* after the append keeps its record; either way the frame is not
\* processed again, every other sampled frame appends its own record, and
\* process_video returns the records of the other frames.
C12_RaisedFrameIsNotRetried ==
    [][/\ frame_count' \in {frame_count, frame_count + 1}
       /\ SampledStep =>
             /\ pc' = "reading"
             /\ IF env'.fault.kind = "detector"
                THEN frames_data' = frames_data
                ELSE /\ Len(frames_data') = Len(frames_data) + 1
                     /\ SubSeq(frames_data', 1, Len(frames_data)) = frames_data
                     /\ Last(frames_data').frame_number = frame_count'
       /\ pc' = "done" =>
             /\ result'[1].frames = frames_data'
             /\ result'[1].total_frames = frame_count']_vars

\* process_video returned the records of the frames around a sampled frame
\* that raised and left none
C12_Witness ==
    /\ pc = "done"
    /\ \E k \in 1..(Len(result[1].frames) - 1) :
          result[1].frames[k + 1].frame_number
              = result[1].frames[k].frame_number + 2 * SampleStride

\* the tracks the loop of the last sampled frame went through
ConfirmedTracks ==
    {i \in 1..Len(tracker.tracks) : tracker.tracks[i].state = "confirmed"}

\* the entry of the loop's log for track id, if there is one
HandledOf(id) == {k \in 1..Len(handled) : handled[k].id = id}

\* C13: a failure while one detection box or one track is handled skips
\* only that box or track: the other boxes reach the tracker, the other
\* tracks are handled and recorded, and the frame's Frame Record is emitted.
C13_FailureSkipsOnlyItsOwn ==
    env.fault.kind \in {"box", "track", "draw"} =>
        /\ Len(frames_data) > 0
        /\ Last(frames_data).frame_number = frame_count - (frame_count % 3)
        /\ env.fault.kind = "box" =>
              /\ \A i \in 1..Len(env.dets) :
                    env.dets[i].obj # env.fault.who =>
                        \E t \in 1..Len(tracker.tracks) :
                            /\ tracker.tracks[t].obj = env.dets[i].obj
                            /\ tracker.tracks[t].time_since_update = 0
                            /\ tracker.tracks[t].ltrb = env.dets[i].box
              /\ \A t \in 1..Len(tracker.tracks) :
                    tracker.tracks[t].obj = env.fault.who =>
                        tracker.tracks[t].time_since_update > 0
        /\ env.fault.kind = "track" =>
              /\ env.fault.who \notin RecordIds(Last(frames_data))
              /\ \A k \in HandledOf(env.fault.who) : handled[k].after = handled[k].before
        /\ \A t \in ConfirmedTracks :
              /\ HandledOf(tracker.tracks[t].track_id) # {}
              /\ \A k \in HandledOf(tracker.tracks[t].track_id) :
                    /\ handled[k].raised =>
                          tracker.tracks[t].track_id = env.fault.who
                    /\ (/\ tracker.tracks[t].time_since_update = 0
                        /\ ~(env.fault.kind = "track"
                               /\ env.fault.who = tracker.tracks[t].track_id)) =>
                          handled[k].best # 0
                    /\ (handled[k].best # 0 /\ handled[k].cls = PersonClass) =>
                          /\ handled[k].id \in RecordIds(Last(frames_data))
                          /\ players[handled[k].id].positions = handled[k].after
                    /\ (handled[k].best # 0 /\ handled[k].cls = BallClass) =>
                          Len(Last(frames_data).ball) = 1

\* the handling of track 1 raised, and track 2, which comes after it in the
\* loop, was handled and is the only player of the frame's record
C13_Witness ==
    /\ env.fault = [kind |-> "track", who |-> 1]
    /\ \E k \in HandledOf(2) : handled[k].best # 0 /\ handled[k].cls = PersonClass
    /\ Len(frames_data) > 0
    /\ RecordIds(Last(frames_data)) = {2}

\* the score the claim gives box_data for a track with box ltrb and stored
\* embeddings fh: 0.7 * IoU + 0.3 * similarity with both embeddings, else IoU
ClaimedScore(ltrb, track_id, box_data, fh) ==
    IF box_data.feat # 0 /\ track_id \in DOMAIN fh
    THEN RAdd(RMul(R(7, 10), _calculate_iou(ltrb, box_data.box)),
              RMul(R(3, 10), Similarity(box_data.feat, fh[track_id])))
    ELSE _calculate_iou(ltrb, box_data.box)

\* best is the choice the claim describes for the track among the boxes yolo
ClaimedChoice(ltrb, track_id, yolo, fh, best) ==
    IF best = 0
    THEN \A b \in 1..Len(yolo) :
            RLe(ClaimedScore(ltrb, track_id, yolo[b], fh), R(3, 10))
    ELSE /\ RLt(R(3, 10), ClaimedScore(ltrb, track_id, yolo[best], fh))
         /\ \A b \in 1..Len(yolo) :
               RLe(ClaimedScore(ltrb, track_id, yolo[b], fh),
                   ClaimedScore(ltrb, track_id, yolo[best], fh))

\* C14: each confirmed track selects the detection with the highest score
\* among those with a score above 0.3 (0.7 * IoU + 0.3 * cosine similarity
\* when the detection has an embedding and the track a stored one, IoU
\* otherwise); with no score above 0.3 the track has no match and nothing is
\* recorded for it in the frame.
C14_BestScoreSelection ==
    [][SampledStep =>
          /\ \A t \in 1..Len(tracker'.tracks) :
                tracker'.tracks[t].state = "confirmed" =>
                    \E k \in 1..Len(handled') :
                        handled'[k].id = tracker'.tracks[t].track_id
          /\ \A k \in 1..Len(handled') :
                \E t \in 1..Len(tracker'.tracks) :
                    /\ tracker'.tracks[t].track_id = handled'[k].id
                    /\ ClaimedChoice(tracker'.tracks[t].ltrb, handled'[k].id,
                                     YoloBoxes(env'.dets, 1, <<>>), feature_history,
                                     handled'[k].best)
                    /\ handled'[k].best = 0 =>
                          /\ handled'[k].id \notin RecordIds(Last(frames_data'))
                          /\ handled'[k].id \in DOMAIN players =>
                                players'[handled'[k].id] = players[handled'[k].id]
                          /\ handled'[k].id \notin DOMAIN players =>
                                handled'[k].id \notin DOMAIN players']_vars

\* track 2, with a stored embedding, chose its own box, the second of two
\* boxes that both score above 0.3 for it; the record of the frame before
\* lists the other player only
C14_Witness ==
    /\ Len(handled) = 2
    /\ handled[1].best # 0
    /\ handled[2].best = 2
    /\ handled[2].box = BoxD
    /\ handled[2].id \in DOMAIN feature_history
    /\ Len(frames_data) >= 2
    /\ RecordIds(frames_data[Len(frames_data) - 1]) = {handled[1].id}

WeightedMean(recent, c) ==
    RDiv(RSum([i \in 1..Len(recent) |-> RMul(recent[i][1][c], recent[i][2])]),
         RSum([i \in 1..Len(recent) |-> recent[i][2]]))

\* the last entry of the track's history is the raw (matched or predicted)
\* position of the observation with the confidence of its box, and up to
\* the 5th observation that position is the committed one
RawUpToFive(h, th) ==
    /\ Len(th) >= 1
    /\ Last(th)[1] = IF h.predicted # <<>> THEN h.predicted ELSE h.raw
    /\ Last(th)[2] = BoxConf(h.box)
    /\ Len(th) <= 5 => h.center = Last(th)[1]
    /\ h.cls = PersonClass => Last(h.after) = h.center

\* C16 (as stated): the first 5 observations of a track commit the raw
\* position, every later one the confidence-weighted mean of the last 5
\* stored positions.
C16_WeightedMeanCommitted ==
    \A k \in 1..Len(handled) :
        handled[k].best # 0 =>
            /\ RawUpToFive(handled[k], track_history[handled[k].id])
            /\ Len(track_history[handled[k].id]) > 5 =>
                  handled[k].center =
                      <<WeightedMean(LastN(track_history[handled[k].id], 5), 1),
                        WeightedMean(LastN(track_history[handled[k].id], 5), 2)>>

\* C16 (amended): the first 5 observations of a track commit the raw
\* position, every later one the confidence-weighted mean of the last 5
\* stored raw positions, the newest included, truncated to whole pixels.
C16_TruncatedWeightedMeanCommitted ==
    \A k \in 1..Len(handled) :
        handled[k].best # 0 =>
            /\ RawUpToFive(handled[k], track_history[handled[k].id])
            /\ Len(track_history[handled[k].id]) > 5 =>
                  handled[k].center =
                      <<RInt(RTrunc(WeightedMean(LastN(track_history[handled[k].id], 5), 1))),
                        RInt(RTrunc(WeightedMean(LastN(track_history[handled[k].id], 5), 2)))>>

\* a 6th or later observation whose weighted mean is not a whole pixel and
\* whose raw positions of the window were seen with different confidences
C16_Witness ==
    \E k \in 1..Len(handled) :
        /\ handled[k].best # 0
        /\ handled[k].smoothed
        /\ handled[k].center # handled[k].raw
        /\ WeightedMean(LastN(track_history[handled[k].id], 5), 1) # handled[k].center[1]
        /\ \E i, j \in (Len(track_history[handled[k].id]) - 4)..Len(track_history[handled[k].id]) :
              track_history[handled[k].id][i][2] # track_history[handled[k].id][j][2]

\* the speeds (step distance / 3) of the steps between the stored positions
StepSpeedsOf(positions) ==
    [i \in 1..(Len(positions) - 1) |->
        RDiv(_calculate_distance(positions[i], positions[i + 1]), RInt(3))]

\* C17: avg_speed of a track is the arithmetic mean of the speeds (step
\* distance / 3) of all its steps so far, and max_speed their maximum
\* (stated for the tracks whose steps are all still in the stored history).
C17_AvgSpeedIsMeanOfSteps ==
    \A id \in DOMAIN players :
        (Len(players[id].positions) >= 2 /\ Len(players[id].positions) < 30) =>
            /\ players[id].avg_speed =
                  RDiv(RSum(StepSpeedsOf(players[id].positions)),
                       RInt(Len(players[id].positions) - 1))
            /\ players[id].max_speed = RMaxOf(StepSpeedsOf(players[id].positions))

\* the Frame Records that list player id next to a ball within the proximity
\* threshold
PossessionRecords(id) ==
    {k \in 1..Len(frames_data) :
        /\ Len(frames_data[k].ball) > 0
        /\ \E j \in 1..Len(frames_data[k].players) :
              /\ frames_data[k].players[j].id = id
              /\ _is_player_in_possession(frames_data[k].players[j].position,
                                          frames_data[k].ball[1].position)}

\* C18: in the final summary possession_percentage of a track is its number
\* of possession frames (the player within the proximity threshold of the
\* ball) divided by its number of observed frames, times 100.
C18_PossessionPercentage ==
    pc = "done" =>
        \A id \in DOMAIN result[1].player_stats :
            Len(IndicesOf(id, 1)) > 0 =>
                result[1].player_stats[id].possession_percentage =
                    Percent(Cardinality(PossessionRecords(id)), Len(IndicesOf(id, 1)))

\* step i of d has a speed (distance * 30) above limit
Faster(d, i, limit) == RLt(RInt(limit), RMul(d[i], RInt(30)))

\* the sum of the steps of d with a speed above limit
SumAbove(d, limit) ==
    RSum([i \in 1..Len(d) |-> IF Faster(d, i, limit) THEN d[i] ELSE Zero])

RunStarts(d) ==
    {i \in 1..Len(d) : Faster(d, i, 8) /\ (i = 1 \/ ~Faster(d, i - 1, 8))}

\* the last step of the run that begins at step i
RunEnd(d, i) ==
    CHOOSE j \in i..Len(d) :
        /\ \A k \in i..j : Faster(d, k, 8)
        /\ j = Len(d) \/ ~Faster(d, j + 1, 8)

\* the distance of the run that begins at step i
RunDistance(d, i) == RSum(SubSeq(d, i, RunEnd(d, i)))

\* the sprint figures of a result are those of the runs of d
SprintsOfRuns(sprints, d, sprint_distance) ==
    /\ sprints.total_sprints = Cardinality(RunStarts(d))
    /\ RunStarts(d) = {} =>
          /\ sprints.avg_sprint_distance = Zero
          /\ sprints.max_sprint_distance = Zero
          /\ sprint_distance = Zero
    /\ RunStarts(d) # {} =>
          /\ \E i \in RunStarts(d) : sprints.max_sprint_distance = RunDistance(d, i)
          /\ \A i \in RunStarts(d) : RLe(RunDistance(d, i), sprints.max_sprint_distance)
          /\ RMul(sprints.avg_sprint_distance, RInt(Cardinality(RunStarts(d))))
                = sprint_distance

EffortOfStep(d, i) ==
    IF RLt(RInt(100), RMul(RDiv(RMul(d[i], RInt(30)), RInt(9)), RInt(100)))
    THEN RInt(100)
    ELSE RMul(RDiv(RMul(d[i], RInt(30)), RInt(9)), RInt(100))

\* total_effort is the summed effort of the steps d over n_frames frames
EffortOverFrames(effort, d, n_frames) ==
    /\ effort.total_effort =
          RDiv(RSum([i \in 1..Len(d) |-> EffortOfStep(d, i)]), RInt(n_frames))
    /\ RLe(Zero, effort.total_effort)
    /\ RLt(effort.total_effort, RInt(100))
    /\ n_frames = 1 =>
          /\ effort.total_effort = Zero
          /\ effort.effort_zones = [low |-> Zero, medium |-> Zero, high |-> Zero]

\* C21: total_effort is the sum over the steps of min(100, speed / 9 * 100)
\* divided by the number of frames of the sequence (not of steps), so it
\* lies in [0,100), and a sequence of one frame gives total_effort 0 and
\* effort-zone percentages 0.
C21_EffortPerFrame ==
    (metrics.physical # <<>> /\ Len(frames_data) > 0) =>
        EffortOverFrames(metrics.physical[1].effort, StepDistances(frames_data),
                         Len(frames_data))

\* four frames whose three steps all reach the cap of 100: total_effort 75
C21_Witness ==
    /\ metrics.physical # <<>>
    /\ Len(frames_data) = 4
    /\ \A i \in 1..3 : EffortOfStep(StepDistances(frames_data), i) = RInt(100)
    /\ metrics.physical[1].effort.total_effort = RInt(75)

\* the tactical result computed for a player that has records, errors aside
TacticalComputed ==
    /\ metrics.tactical # <<>>
    /\ "positioning" \in DOMAIN metrics.tactical[1]
    /\ Len(_extract_player_frames(frames_data, 1)) > 0

\* the sum of the percentages of three zones
CoverageOf(zone_coverage, a, b, c) ==
    RAdd(RAdd(zone_coverage[a], zone_coverage[b]), zone_coverage[c])

\* C22: every position inside the pitch is counted in exactly one third and
\* in exactly one lateral band, positions on a border included, so the
\* percentages of the thirds sum to 100 and so do those of the bands.
C22_OneThirdOneBand ==
    TacticalComputed =>
        /\ CoverageOf(metrics.tactical[1].positioning.zone_coverage,
                      "defensive_third", "middle_third", "attacking_third") = RInt(100)
        /\ CoverageOf(metrics.tactical[1].positioning.zone_coverage,
                      "left_wing", "center", "right_wing") = RInt(100)

\* the first record of players that carries the ball
Carrier(ps) == ps[CHOOSE k \in 1..Len(ps) :
                     /\ ps[k].has_ball
                     /\ \A j \in 1..(k - 1) : ~ps[j].has_ball]

\* the steps of pf at which the player hands the ball to a player of its
\* team shown with the ball in the team record read for the step's end
HandOffs(pf, tf) ==
    {i \in 1..(Len(pf) - 1) :
        /\ pf[i].players[1].has_ball
        /\ ~pf[i + 1].players[1].has_ball
        /\ \E k \in 1..Len(tf[i + 1].players) :
              /\ tf[i + 1].players[k].has_ball
              /\ tf[i + 1].players[k].team_id = pf[i].players[1].team_id}

\* the displacement of hand-off i, from the passer to the carrier
HandOffDx(pf, tf, i) == RSub(Carrier(tf[i + 1].players).position[1], pf[i].players[1].position[1])
HandOffDy(pf, tf, i) == RSub(Carrier(tf[i + 1].players).position[2], pf[i].players[1].position[2])
HandOffDistance(pf, tf, i) == Hypot(HandOffDx(pf, tf, i), HandOffDy(pf, tf, i))

PassCountsOf(passing, pf, tf, offs) ==
    /\ passing.total_passes = Cardinality(offs)
    /\ passing.pass_types.short =
          Cardinality({i \in offs : RLt(HandOffDistance(pf, tf, i), RInt(15))})
    /\ passing.pass_types.medium =
          Cardinality({i \in offs : /\ RLe(RInt(15), HandOffDistance(pf, tf, i))
                                    /\ RLt(HandOffDistance(pf, tf, i), RInt(30))})
    /\ passing.pass_types.long =
          Cardinality({i \in offs : RLe(RInt(30), HandOffDistance(pf, tf, i))})
    /\ passing.pass_directions.forward =
          Cardinality({i \in offs : /\ RLt(RAbs(HandOffDy(pf, tf, i)), RAbs(HandOffDx(pf, tf, i)))
                                    /\ RLt(Zero, HandOffDx(pf, tf, i))})
    /\ passing.pass_directions.backward =
          Cardinality({i \in offs : /\ RLt(RAbs(HandOffDy(pf, tf, i)), RAbs(HandOffDx(pf, tf, i)))
                                    /\ RLt(HandOffDx(pf, tf, i), Zero)})
    /\ passing.pass_directions.lateral =
          Cardinality({i \in offs : RLe(RAbs(HandOffDx(pf, tf, i)), RAbs(HandOffDy(pf, tf, i)))})
    /\ passing.pass_types.short + passing.pass_types.medium + passing.pass_types.long
          = passing.total_passes
    /\ passing.pass_directions.forward + passing.pass_directions.backward
          + passing.pass_directions.lateral = passing.total_passes

\* C23: every detected hand-off to a player of the same team adds one to
\* exactly one pass type (short below 15, medium from 15 to below 30, long
\* from 30 on) and to exactly one direction (forward or backward by the sign
\* of dx when |dx| > |dy|, lateral otherwise), so the pass types and the
\* directions each sum to total_passes.
C23_PassTypesAndDirections ==
    TacticalComputed =>
        PassCountsOf(metrics.tactical[1].passing, _extract_player_frames(frames_data, 1),
                     frames_data,
                     HandOffs(_extract_player_frames(frames_data, 1), frames_data))

\* a hand-off over a distance of exactly 15 with |dx| = 9 < |dy| = 12: medium, lateral
C23_Witness ==
    /\ TacticalComputed
    /\ metrics.tactical[1].passing.total_passes = 1
    /\ metrics.tactical[1].passing.pass_types.medium = 1
    /\ metrics.tactical[1].passing.pass_directions.lateral = 1
    /\ \E i \in 1..(Len(frames_data) - 1) :
          /\ Len(frames_data[i].players) = 2
          /\ frames_data[i].players[1].has_ball
          /\ Len(frames_data[i + 1].players) = 2
          /\ frames_data[i + 1].players[2].has_ball
          /\ Dist(frames_data[i].players[1].position,
                  frames_data[i + 1].players[2].position) = RInt(15)

\* the steps of pf without the ball at their start, with a carrier in the
\* team record of the step, that end strictly between 10 and 30 from it
SupportSteps(pf, tf) ==
    {i \in 1..(Len(pf) - 1) :
        /\ ~pf[i].players[1].has_ball
        /\ \E k \in 1..Len(tf[i].players) : tf[i].players[k].has_ball
        /\ RLt(RInt(10), Dist(pf[i + 1].players[1].position, Carrier(tf[i].players).position))
        /\ RLt(Dist(pf[i + 1].players[1].position, Carrier(tf[i].players).position), RInt(30))}

\* the step brings the player nearer to the carrier
TowardCarrier(pf, tf, i) ==
    RLt(Dist(pf[i + 1].players[1].position, Carrier(tf[i].players).position),
        Dist(pf[i].players[1].position, Carrier(tf[i].players).position))

\* the step increases the player's x
MovingForward(pf, i) == RLt(pf[i].players[1].position[1], pf[i + 1].players[1].position[1])

SupportRunsToward(off_ball, pf, tf) ==
    off_ball.support_runs
        = Cardinality({i \in SupportSteps(pf, tf) : TowardCarrier(pf, tf, i)})

SupportRunsForward(off_ball, pf, tf) ==
    off_ball.support_runs = Cardinality({i \in SupportSteps(pf, tf) : MovingForward(pf, i)})

\* C24: a step is counted as a support run exactly when the player does not
\* have the ball, a ball carrier exists in the team frame, the player's
\* distance to the carrier decreases over the step, and the resulting
\* distance is strictly between 10 and 30.
C24_SupportRunTowardCarrier ==
    TacticalComputed =>
        SupportRunsToward(metrics.tactical[1].off_ball_movement,
                          _extract_player_frames(frames_data, 1), frames_data)

\* C24 (amended): a step is counted as a support run exactly when the player
\* does not have the ball, a ball carrier exists in the team frame, the
\* player's x coordinate increases over the step (moving forward), and the
\* resulting distance to the carrier is strictly between 10 and 30.
C24_SupportRunMovingForward ==
    TacticalComputed =>
        SupportRunsForward(metrics.tactical[1].off_ball_movement,
                           _extract_player_frames(frames_data, 1), frames_data)

\* two records: the player moves from x = 40 to x = 45, away from the
\* carrier at x = 20 (distance 20, then 25), and the step is counted
C24_Witness ==
    /\ TacticalComputed
    /\ Len(frames_data) = 2
    /\ Len(frames_data[1].players) = 2
    /\ frames_data[1].players[1].position = Pos(40, 30)
    /\ frames_data[1].players[2] = TeamPlayer(2, Pos(20, 30), TRUE, 1)
    /\ Len(frames_data[2].players) = 2
    /\ frames_data[2].players[1].position = Pos(45, 30)
    /\ metrics.tactical[1].off_ball_movement.support_runs = 1

\* the records of frames_in in which some player is within the possession
\* threshold of the ball
RecordsInPossession(frames_in) ==
    {i \in 1..Len(frames_in) :
        /\ Len(frames_in[i].ball) > 0
        /\ \E k \in 1..Len(frames_in[i].players) :
              RLt(Dist(frames_in[i].players[k].position, frames_in[i].ball[1].position),
                  RInt(2))}

PossessionShare(possession, frames_in) ==
    /\ possession.possession_percentage
          = Percent(Cardinality(RecordsInPossession(frames_in)), Len(frames_in))
    /\ RLe(Zero, possession.possession_percentage)
    /\ RLe(possession.possession_percentage, RInt(100))

\* C25: with any number of players in a frame, possession_percentage of the
\* technical engine is the share of the elapsed time in which a player is
\* within the proximity threshold of the ball, so it lies in [0,100];
\* frames without a ball add nothing.
C25_PossessionShare ==
    (metrics.technical # <<>> /\ Len(frames_data) > 0) =>
        PossessionShare(metrics.technical[1].ball_possession, frames_data)

\* entry k of handled was matched to a box that overlaps (IoU > 0.3) the box
\* matched to another track in the same frame
OverlapsNow(k) ==
    \E j \in 1..Len(handled) :
        /\ j # k
        /\ handled[j].best # 0
        /\ RLt(R(3, 10), _calculate_iou(handled[k].box, handled[j].box))

\* C26: the centre of a matched track is replaced by the motion prediction
\* only in a frame where its box has IoU > 0.3 with the box of another track
\* of that frame; in every frame without such an overlap, also after an
\* earlier overlap has ended, the centre stored before smoothing is the
\* centre of the matched box.
C26_PredictionOnlyWhileOverlapping ==
    \A k \in 1..Len(handled) :
        handled[k].best # 0 =>
            /\ handled[k].predicted # <<>> => OverlapsNow(k)
            /\ ~OverlapsNow(k) =>
                  Last(track_history[handled[k].id])[1] = BoxCenter(handled[k].box)

\* the number of Frame Records among the first k that list player id
RecordsOf(id, k) == Cardinality({j \in 1..k : id \in RecordIds(frames_data[j])})

\* C27: every frame in which a person track is recorded commits exactly one
\* position to its history, the frame that creates the track included; so,
\* up to 30 recorded frames, time_in_frame of its Frame Record entry and
\* total_frames of player_stats are the number of Frame Records that list
\* the id.
C27_OnePositionPerRecordedFrame ==
    /\ \A k \in 1..Len(frames_data) : \A j \in 1..Len(frames_data[k].players) :
          RecordsOf(frames_data[k].players[j].id, k) <= 30 =>
              frames_data[k].players[j].stats.time_in_frame
                  = RecordsOf(frames_data[k].players[j].id, k)
    /\ \A k \in 1..Len(handled) :
          (handled[k].best # 0 /\ handled[k].cls = PersonClass) =>
              Len(handled[k].after) = Min2(Len(handled[k].before) + 1, 30)
    /\ result # <<>> =>
          \A id \in DOMAIN result[1].player_stats :
              RecordsOf(id, Len(frames_data)) <= 30 =>
                  result[1].player_stats[id].total_frames = RecordsOf(id, Len(frames_data))

\* the team records with the frame numbers of the records of pf, in order
SameNumbered(pf, tf) ==
    [i \in 1..Len(pf) |->
        tf[CHOOSE k \in 1..Len(tf) : tf[k].frame_number = pf[i].frame_number]]

\* C28: every per-frame contribution of the tactical engine for the i-th
\* record of the player's sequence is computed against the team record with
\* the same frame_number, and analyze raises no error when the two sequences
\* differ in length.
C28_SameFrameNumber ==
    TacticalComputed =>
        metrics.tactical[1]
            = TacticalAnalyze(_extract_player_frames(frames_data, 1),
                              SameNumbered(_extract_player_frames(frames_data, 1),
                                           frames_data))

\* the position in pixels committed for an entry of a Frame Record
CommittedOf(entry) ==
    <<RMul(entry.position[1], RInt(FrameWidth)), RMul(entry.position[2], RInt(FrameHeight))>>

\* the stats of entry 'curr' of a player against those of 'prev', its entry in
\* the last record before that lists it: nothing decreases, and the distance
\* has grown by the distance between the two committed positions
RunningStatsStep(prev, curr) ==
    /\ RLe(prev.stats.total_distance, curr.stats.total_distance)
    /\ RLe(prev.stats.max_speed, curr.stats.max_speed)
    /\ curr.stats.total_distance
          = RAdd(prev.stats.total_distance, Dist(CommittedOf(prev), CommittedOf(curr)))

\* the index of the last of the first k records that lists player id, or 0
RECURSIVE LastListing(_, _)
LastListing(id, k) ==
    IF k = 0 THEN 0
    ELSE IF id \in RecordIds(frames_data[k]) THEN k
    ELSE LastListing(id, k - 1)

\* the stats of player id in record k, its newest, against its record before
\* (the first record of a player has distance 0)
NewestStats(id, k) ==
    k > 0 =>
        IF LastListing(id, k - 1) = 0
        THEN EntryOf(frames_data[k], id).stats.total_distance = Zero
        ELSE RunningStatsStep(EntryOf(frames_data[LastListing(id, k - 1)], id),
                              EntryOf(frames_data[k], id))

\* C29: over the successive Frame Records of a player id, total_distance and
\* max_speed never decrease, and total_distance of a record is the sum of
\* the Euclidean distances between the consecutive positions committed for
\* the track up to and including that frame.  Stated for the newest record
\* of every player in every state: a record is never changed once appended,
\* the first record of a player has distance 0, and each later one adds the
\* distance between the positions committed in it and in the one before.
C29_RunningStats ==
    \A id \in DOMAIN players : NewestStats(id, LastListing(id, Len(frames_data)))

\* a track recorded 31 times whose distance kept growing after its first
\* positions left the stored history of 30
C29_Witness ==
    \E id \in DOMAIN players :
        /\ Len(IndicesOf(id, 1)) = 31
        /\ RLt(Zero, EntryOf(frames_data[IndicesOf(id, 1)[2]], id).stats.total_distance)
        /\ RLt(EntryOf(frames_data[IndicesOf(id, 1)[30]], id).stats.total_distance,
               EntryOf(frames_data[IndicesOf(id, 1)[31]], id).stats.total_distance)

\* the step appended a Frame Record that lists player id
RecordedInStep(id) ==
    /\ Len(frames_data') = Len(frames_data) + 1
    /\ id \in RecordIds(Last(frames_data'))

=============================================================================
